---- MODULE Spec2Model ----
(***************************************************************************)
(* Greylock: the inverted-index search service.  The model covers the      *)
(* merge operator of the indexes store (database.hpp), the index handler   *)
(* of the HTTP server (server.cpp) with its two write batches, and the     *)
(* metadata sequence counter with its timer-driven flush (database.hpp).   *)
(***************************************************************************)
EXTENDS Integers, Sequences, FiniteSets, TLC

(***************************************************************************)
(* Bounds and input domains.                                                *)
(***************************************************************************)
\* total number of documents the index handler parses in one behaviour
MaxOps == 2
\* the lengths of the "docs" array of an index request
ReqSizes == 0..2

\* options::tokens_shard_size as configured for the model
tokens_shard_size == 2

Workers == {"w1", "w2"}
Mailboxes == {"m1"}
ExtIds == {"d1", "d2"}
\* <<tsec, tnsec>>, from the clock or from the request's "timestamp" object
Timestamps == {<<1, 1>>, <<2, 0>>}
Contents == {"c1", "c2"}
\* the token sets a document's "index" object can carry, as <<attribute, token>>
DocIndexes == { {<<"title", "a">>, <<"to", "c">>} }
TokenPairs == UNION DocIndexes

\* the bytes of a value: absent, the serialized form of data, or bytes that
\* deserialize() rejects
NoValue == [kind |-> "none", data |-> <<>>]
Corrupt == [kind |-> "corrupt", data |-> <<>>]

\* serialize(): the msgpack bytes of a value
serialize(x) == [kind |-> "bytes", data |-> x]

\* deserialize(): the error and the value unpacked
deserialize(b) == [err |-> b.kind # "bytes", value |-> b.data]

NoDoc == [id |-> "", indexed_id |-> <<0, 0, 0>>, mbox |-> "", ctx |-> "", idx |-> {}]

(***************************************************************************)
(* Document ids.                                                            *)
(***************************************************************************)
\* std::hash<std::string>{}(id), the value parse_docs passes as the id's seq
Hash(id) == CASE id = "d1" -> 1 [] id = "d2" -> 2 [] OTHER -> 3

\* document::assign_id(id, seq, tsec, tnsec): indexed_id = (tsec, tnsec, seq)
assign_id(id, seq, ts) == <<ts[1], ts[2], seq>>

\* id_t::operator<: timestamp first, then seq
IdLess(a, b) ==
  \/ a[1] < b[1]
  \/ a[1] = b[1] /\ a[2] < b[2]
  \/ a[1] = b[1] /\ a[2] = b[2] /\ a[3] < b[3]

\* id_t::to_string: the key of the documents column
to_string(iid) == iid

\* document::generate_shard_number: indexed_id.seq / tokens_shard_size
generate_shard_number(iid) == iid[3] \div tokens_shard_size

AllIds == {assign_id(e, Hash(e), ts) : e \in ExtIds, ts \in Timestamps}
AllShards == {generate_shard_number(i) : i \in AllIds}

\* token::key and token::shard_key as generate_token_keys builds them
index_key(mbox, tp, shard) == <<"index.", mbox, tp[1], tp[2], shard>>
shard_key(mbox, tp) == <<"token_shards.", mbox, tp[1], tp[2]>>

IndexKeys == {index_key(m, tp, s) : m \in Mailboxes, tp \in TokenPairs, s \in AllShards}
ShardKeys == {shard_key(m, tp) : m \in Mailboxes, tp \in TokenPairs}
AllKeys == IndexKeys \cup ShardKeys

(***************************************************************************)
(* The merge operator.                                                      *)
(***************************************************************************)
RECURSIVE SortIds(_)
\* iteration of std::set<document_for_index>: ascending by operator<
SortIds(S) ==
  IF S = {} THEN <<>>
  ELSE LET m == CHOOSE x \in S : \A y \in S : y = x \/ IdLess(x, y)
       IN <<m>> \o SortIds(S \ {m})

RECURSIVE SortNat(_)
\* iteration of std::set<size_t>: ascending
SortNat(S) ==
  IF S = {} THEN <<>>
  ELSE LET m == CHOOSE x \in S : \A y \in S : x <= y
       IN <<m>> \o SortNat(S \ {m})

Range(s) == {s[i] : i \in DOMAIN s}

RECURSIVE Flatten(_)
Flatten(ss) == IF ss = <<>> THEN <<>> ELSE Head(ss) \o Flatten(Tail(ss))

MergeFailed == [ok |-> FALSE, value |-> NoValue]

\* the old value and every operand deserialize
AllDeserialize(old, operands) ==
  /\ old.kind # "none" => ~deserialize(old).err
  /\ \A i \in DOMAIN operands : ~deserialize(operands[i]).err

\* a buggy merge_index: appends the operands to the old list as they arrive
merge_index_append(old, operands) ==
  IF ~AllDeserialize(old, operands) THEN MergeFailed
  ELSE [ok |-> TRUE,
        value |-> serialize((IF old.kind = "none" THEN <<>> ELSE deserialize(old).value)
                            \o [i \in DOMAIN operands |-> deserialize(operands[i]).value])]

RECURSIVE InsertSorted(_, _)
\* x put into the ascending list s, before the first element that is not less
InsertSorted(s, x) ==
  IF s = <<>> THEN <<x>>
  ELSE IF IdLess(Head(s), x) THEN <<Head(s)>> \o InsertSorted(Tail(s), x)
  ELSE <<x>> \o s

RECURSIVE InsertAll(_, _)
InsertAll(s, xs) == IF xs = <<>> THEN s ELSE InsertAll(InsertSorted(s, Head(xs)), Tail(xs))

\* a buggy merge_index: a std::multiset, sorted but keeping equal ids
merge_index_multiset(old, operands) ==
  IF ~AllDeserialize(old, operands) THEN MergeFailed
  ELSE [ok |-> TRUE,
        value |-> serialize(InsertAll(IF old.kind = "none" THEN <<>> ELSE deserialize(old).value,
                                      [i \in DOMAIN operands |-> deserialize(operands[i]).value]))]

\* a buggy merge_index: of several operands only the last one is inserted
merge_index_last_operand(old, operands) ==
  IF ~AllDeserialize(old, operands) THEN MergeFailed
  ELSE LET unique_index ==
             (IF old.kind = "none" THEN {} ELSE Range(deserialize(old).value))
             \cup {deserialize(operands[i]).value : i \in DOMAIN operands \cap {Len(operands)}}
       IN [ok |-> TRUE, value |-> serialize(SortIds(unique_index))]

\* disk_index_merge_operator::merge_index
merge_index(old, operands) ==
  IF old.kind # "none" /\ deserialize(old).err THEN MergeFailed
  ELSE IF \E i \in DOMAIN operands : deserialize(operands[i]).err THEN MergeFailed
  ELSE LET unique_index ==
             (IF old.kind = "none" THEN {} ELSE Range(deserialize(old).value))
             \cup {deserialize(operands[i]).value : i \in DOMAIN operands}
       IN [ok |-> TRUE, value |-> serialize(SortIds(unique_index))]

\* a buggy merge_token_shards: an operand that does not deserialize is skipped
merge_token_shards_skip_operand(old, operands) ==
  IF old.kind # "none" /\ deserialize(old).err THEN MergeFailed
  ELSE LET shards ==
             (IF old.kind = "none" THEN {} ELSE Range(deserialize(old).value))
             \cup UNION {Range(deserialize(operands[i]).value) :
                           i \in {n \in DOMAIN operands : ~deserialize(operands[n]).err}}
       IN [ok |-> TRUE, value |-> serialize(SortNat(shards))]

\* a buggy merge_token_shards: concatenates the shard lists without the set
merge_token_shards_append(old, operands) ==
  IF ~AllDeserialize(old, operands) THEN MergeFailed
  ELSE [ok |-> TRUE,
        value |-> serialize((IF old.kind = "none" THEN <<>> ELSE deserialize(old).value)
                            \o Flatten([i \in DOMAIN operands |-> deserialize(operands[i]).value]))]

\* disk_index_merge_operator::merge_token_shards
merge_token_shards(old, operands) ==
  IF old.kind # "none" /\ deserialize(old).err THEN MergeFailed
  ELSE IF \E i \in DOMAIN operands : deserialize(operands[i]).err THEN MergeFailed
  ELSE LET shards ==
             (IF old.kind = "none" THEN {} ELSE Range(deserialize(old).value))
             \cup UNION {Range(deserialize(operands[i]).value) : i \in DOMAIN operands}
       IN [ok |-> TRUE, value |-> serialize(SortNat(shards))]

\* a buggy FullMerge: every key that is no index. key is merged as a ShardSet
FullMerge_no_prefix_check(key, old, operands) ==
  IF key[1] = "index." THEN merge_index(old, operands)
  ELSE merge_token_shards(old, operands)

\* disk_index_merge_operator::FullMerge: dispatch by key prefix
FullMerge(key, old, operands) ==
  IF key[1] = "token_shards." THEN merge_token_shards(old, operands)
  ELSE IF key[1] = "index." THEN merge_index(old, operands)
  ELSE MergeFailed

\* disk_index_merge_operator::PartialMerge: always declined
PartialMerge(key, left_operand, right_operand) == MergeFailed

(***************************************************************************)
(* State.                                                                   *)
(***************************************************************************)
VARIABLES
  documents,     \* docs store, documents column: to_string(indexed_id) -> Document
  document_ids,  \* docs store, document_ids column: external id -> indexed_id
  indexes,       \* indexes store: key -> [base, ops], the value and the merge operands above it
  pc,            \* per worker: position in on_index::on_request
  cur,           \* per worker: the document being processed
  left,          \* per worker: entries of "docs" not yet processed
  mbox,          \* per worker: the request's mailbox
  reply,         \* per worker: the reply of the last request
  trace,         \* per worker: the batch writes of the current document, in order
  nops,          \* documents parsed so far
  assigned,      \* the indexed_ids given to documents so far
  clean,         \* no batch write failed and the process never died
  shadow,        \* the stores as they are when each call commits alone, in call order
  indexed,       \* the documents whose two batches have both been committed
  db_state,      \* the database object of the docs store: "closed" or "open"
  m_seq,         \* metadata::m_seq
  m_dirty,       \* metadata::m_dirty
  meta_disk,     \* the bytes under options::metadata_key
  timer_pc,      \* the timer thread's position in sync_metadata
  meta_serialized, \* sync_metadata's local meta_serialized on the timer thread
  seq_pc,        \* per worker: position in metadata::get_sequence
  returned,      \* every value get_sequence has returned, over all runs
  reuse,         \* get_sequence has returned a value it had returned before
  io_ok,         \* no write of the metadata key has failed
  covered,       \* the values get_sequence had returned when the last flush completed
  died,          \* the process has died without a shutdown
  ex_pc,         \* check_exact: "idle", "call" with its arguments set, "done"
  ex_tokens,     \* check_exact's tokens argument: the tokens of one exact attribute
  ex_content,    \* check_exact's content argument: the words of split_content
  ex_match,      \* check_exact's return value
  spc,           \* the search client: "idle", "paging" (a response with completed=false
                 \* is to be followed up), "done"
  sq,            \* the search request of the current pagination, its paging as last sent
  sres,          \* the last search response
  sacc,          \* the documents of all responses of the current pagination, in order
  sndocs,        \* documents indexed so far in a search behaviour
  rpc,           \* a search that reads key by key: "idle", "reading", "done"
  rq,            \* its request
  rix,           \* the entries of the indexes store it has read, each as it was when read
  rdocs,         \* the Documents it has fetched, each as it was when fetched
  rseen,         \* the keys of the documents column it has asked for
  rres,          \* its response
  ipc,           \* the index operation running beside it: "idle", "indexes"
  idoc,          \* the document of that index operation
  bpc,           \* an index request followed entry by entry: position in on_index::on_request
  bleft,         \* its entries of "docs" not yet reached by parse_docs
  breq,          \* its entries reached so far, in order
  bwritten,      \* the batch writes that succeeded for it: <<entry number, store>>
  breply,        \* its reply: "none", "ok", "error"
  hpc,           \* per connection: "idle", "on_request", "sending", "returned"
  hreq,          \* per connection: the handler the request is routed to and its body
  hplan,         \* per connection: the send calls still ahead on the path taken
  hsent,         \* per connection: the replies sent for the request, in order
  cpc,           \* the compact tool: "idle", "outer", "inner", "compact", "done"
  ccol,          \* the column it compacts: the value sizes of its keys, in key order
  csize,         \* its --size option, csize_mb
  cit,           \* its iterator: the number of the key it is on, Len(ccol) + 1 when invalid
  cstart,        \* the key `start` was assigned from, 0 for the empty Slice
  cend,          \* the key `end` was assigned from, 0 for the empty Slice
  current_size,  \* the bytes counted into the current chunk
  cchunks,       \* the ranges handed to db.compact, in order
  cstale         \* db.compact was handed a Slice that no longer read as assigned

indexVars == <<documents, document_ids, indexes, pc, cur, left, mbox, reply, trace,
               nops, assigned, clean, shadow, indexed>>
metaVars == <<db_state, m_seq, m_dirty, meta_disk, timer_pc, meta_serialized, seq_pc,
              returned, reuse, io_ok, covered, died>>
exactVars == <<ex_pc, ex_tokens, ex_content, ex_match>>
queryVars == <<spc, sq, sres, sacc, sndocs>>
concVars == <<rpc, rq, rix, rdocs, rseen, rres, ipc, idoc>>
batchVars == <<bpc, bleft, breq, bwritten, breply>>
replyVars == <<hpc, hreq, hplan, hsent>>
compactVars == <<cpc, ccol, csize, cit, cstart, cend, current_size, cchunks, cstale>>
handlerVars == <<batchVars, replyVars, compactVars>>
searchVars == <<exactVars, queryVars, concVars, handlerVars>>
vars == <<indexVars, metaVars, searchVars>>

EmptyEntry == [base |-> NoValue, ops |-> <<>>]
NoShadow == [documents |-> <<>>, document_ids |-> <<>>, indexes |-> <<>>]

\* database::read on the indexes store: the engine merges the operands on
\* read; a failed merge reads as bytes that cannot be used
Read(store, key) ==
  IF store[key].ops = <<>> THEN store[key].base
  ELSE LET merged == FullMerge(key, store[key].base, store[key].ops)
       IN IF merged.ok THEN merged.value ELSE Corrupt

\* the list a reader deserializes from the value under key, empty when absent
ReadList(store, key) ==
  LET value == Read(store, key)
  IN IF value.kind = "bytes" THEN deserialize(value).value ELSE <<>>


(***************************************************************************)
(* The engine: atomic write batches, merges applied on compaction.          *)
(***************************************************************************)
\* rocksdb::WriteBatch::Merge applied at commit: every operand of the batch
\* is put on top of its key, all of them in one step
ApplyMerges(store, batch) ==
  [k \in DOMAIN store |->
     IF \E b \in batch : b[1] = k
     THEN [store[k] EXCEPT !.ops = @ \o <<(CHOOSE b \in batch : b[1] = k)[2]>>]
     ELSE store[k]]

\* rocksdb::WriteBatch::Put on a column: the key's value is replaced
PutKey(col, key, value) ==
  [k \in DOMAIN col \cup {key} |-> IF k = key THEN value ELSE col[k]]

\* the engine's compaction of one key: the operands are merged into the value
CompactEntry(key, e) ==
  IF e.ops = <<>> THEN e
  ELSE LET r == FullMerge(key, e.base, e.ops)
       IN IF r.ok THEN [base |-> r.value, ops |-> <<>>] ELSE e

(***************************************************************************)
(* on_index: the index handler.                                             *)
(***************************************************************************)
\* a buggy indexes batch: the posting-list merges without the shard merges
indexes_batch_no_shards(doc) ==
  { <<index_key(doc.mbox, tp, generate_shard_number(doc.indexed_id)), serialize(doc.indexed_id)>>
      : tp \in doc.idx }

\* a buggy indexes batch: the shard merged into the ShardSet is always 0
indexes_batch_shard_zero(doc) ==
  { <<index_key(doc.mbox, tp, generate_shard_number(doc.indexed_id)), serialize(doc.indexed_id)>>
      : tp \in doc.idx }
  \cup
  { <<shard_key(doc.mbox, tp), serialize(<<0>>)>> : tp \in doc.idx }

\* process_one_document, the loop building indexes_batch: per token one merge
\* of the document id under token::key and one of the shard under shard_key
indexes_batch(doc) ==
  { <<index_key(doc.mbox, tp, generate_shard_number(doc.indexed_id)), serialize(doc.indexed_id)>>
      : tp \in doc.idx }
  \cup
  { <<shard_key(doc.mbox, tp), serialize(<<generate_shard_number(doc.indexed_id)>>)>>
      : tp \in doc.idx }

\* doc_serialized: the Document record
doc_value(doc) ==
  serialize([id |-> doc.id, mbox |-> doc.mbox, ctx |-> doc.ctx, idx |-> doc.idx])

\* a buggy docs batch: the Document is put under its external id
docs_batch_by_external_id(doc) ==
  [documents |-> <<doc.id, doc_value(doc)>>,
   document_ids |-> <<doc.id, serialize(doc.indexed_id)>>]

\* process_one_document, docs_batch: the Document under to_string(indexed_id)
\* in the documents column, the indexed_id under the external id in the
\* document_ids column
docs_batch(doc) ==
  [documents |-> <<to_string(doc.indexed_id), doc_value(doc)>>,
   document_ids |-> <<doc.id, serialize(doc.indexed_id)>>]

\* a buggy error check after the docs write: the error is not returned
after_docs_write_ignore(ok) == "write_indexes"

\* process_one_document: where it goes after db_docs().write(&docs_batch)
after_docs_write(ok) == IF ok THEN "write_indexes" ELSE "reply"

\* the stores after one call's two batches, committed with nothing in between
CommitAlone(sh, doc) ==
  [documents |-> PutKey(sh.documents, docs_batch(doc).documents[1], docs_batch(doc).documents[2]),
   document_ids |-> PutKey(sh.document_ids, docs_batch(doc).document_ids[1],
                           docs_batch(doc).document_ids[2]),
   indexes |-> LET batch == indexes_batch(doc)
               IN [k \in AllKeys |->
                     IF \E b \in batch : b[1] = k
                     THEN FullMerge(k, sh.indexes[k],
                                    <<(CHOOSE b \in batch : b[1] = k)[2]>>).value
                     ELSE sh.indexes[k]]]

\* what is remembered of a document that was indexed
Indexed(doc) == [id |-> doc.id, indexed_id |-> doc.indexed_id, mbox |-> doc.mbox, idx |-> doc.idx]

\* on_index::on_request up to the call of parse_docs
on_request(w) ==
  /\ UNCHANGED <<metaVars, searchVars, indexed>>
  /\ pc[w] = "idle"
  /\ nops < MaxOps
  /\ \E m \in Mailboxes, n \in ReqSizes :
       /\ mbox' = [mbox EXCEPT ![w] = m]
       /\ left' = [left EXCEPT ![w] = n]
       \* parse_docs over an empty array returns its initial ENOENT error
       /\ pc' = [pc EXCEPT ![w] = IF n = 0 THEN "reply" ELSE "parse"]
       /\ reply' = [reply EXCEPT ![w] = IF n = 0 THEN "error" ELSE "none"]
  /\ UNCHANGED <<documents, document_ids, indexes, cur, trace, nops, assigned, clean, shadow>>

\* parse_docs: an entry that is no object, has no string id or no index object
parse_docs_invalid(w) ==
  /\ UNCHANGED <<metaVars, searchVars, indexed>>
  /\ pc[w] = "parse"
  /\ pc' = [pc EXCEPT ![w] = "reply"]
  /\ reply' = [reply EXCEPT ![w] = "error"]
  /\ left' = [left EXCEPT ![w] = 0]
  /\ cur' = [cur EXCEPT ![w] = NoDoc]
  /\ trace' = [trace EXCEPT ![w] = <<>>]
  /\ UNCHANGED <<documents, document_ids, indexes, mbox, nops, assigned, clean, shadow>>

\* parse_docs: one entry parsed, its id assigned, process_one_document entered
parse_docs(w) ==
  /\ UNCHANGED <<metaVars, searchVars, indexed>>
  /\ pc[w] = "parse"
  /\ nops < MaxOps
  /\ \E id \in ExtIds, ts \in Timestamps, c \in Contents, ix \in DocIndexes :
       LET doc == [id |-> id, indexed_id |-> assign_id(id, Hash(id), ts),
                   mbox |-> mbox[w], ctx |-> c, idx |-> ix]
       IN /\ cur' = [cur EXCEPT ![w] = doc]
          /\ assigned' = assigned \cup {doc.indexed_id}
          /\ shadow' = IF clean THEN CommitAlone(shadow, doc) ELSE shadow
  /\ nops' = nops + 1
  /\ trace' = [trace EXCEPT ![w] = <<>>]
  /\ pc' = [pc EXCEPT ![w] = "write_docs"]
  /\ UNCHANGED <<documents, document_ids, indexes, left, mbox, reply, clean>>

\* process_one_document: db_docs().write(&docs_batch), both puts in one batch
write_docs(w) ==
  /\ UNCHANGED <<metaVars, searchVars, indexed>>
  /\ pc[w] = "write_docs"
  /\ \E ok \in BOOLEAN :
       /\ pc' = [pc EXCEPT ![w] = after_docs_write(ok)]
       /\ IF ok
          THEN /\ documents' = PutKey(documents, docs_batch(cur[w]).documents[1],
                                        docs_batch(cur[w]).documents[2])
               /\ document_ids' = PutKey(document_ids, docs_batch(cur[w]).document_ids[1],
                                           docs_batch(cur[w]).document_ids[2])
               /\ trace' = [trace EXCEPT ![w] = Append(@, "docs_ok")]
               /\ UNCHANGED <<reply, left, clean, shadow, cur>>
          ELSE /\ trace' = [trace EXCEPT ![w] = Append(@, "docs_failed")]
               /\ reply' = [reply EXCEPT ![w] = "error"]
               /\ left' = [left EXCEPT ![w] = 0]
               /\ clean' = FALSE
               /\ shadow' = NoShadow
               /\ UNCHANGED <<documents, document_ids, cur>>
  /\ UNCHANGED <<indexes, mbox, nops, assigned>>

\* process_one_document: db_indexes().write(&indexes_batch), then back in
\* parse_docs: the next entry, or the reply of on_request
write_indexes(w) ==
  /\ UNCHANGED <<metaVars, searchVars>>
  /\ pc[w] = "write_indexes"
  /\ \E ok \in BOOLEAN :
       IF ok
       THEN /\ indexes' = ApplyMerges(indexes, indexes_batch(cur[w]))
            /\ trace' = [trace EXCEPT ![w] = Append(@, "indexes_ok")]
            /\ left' = [left EXCEPT ![w] = @ - 1]
            /\ pc' = [pc EXCEPT ![w] = IF left[w] = 1 THEN "reply" ELSE "parse"]
            /\ reply' = [reply EXCEPT ![w] = IF left[w] = 1 THEN "ok" ELSE "none"]
            /\ indexed' = indexed \cup {Indexed(cur[w])}
            /\ UNCHANGED <<clean, shadow>>
       ELSE /\ trace' = [trace EXCEPT ![w] = Append(@, "indexes_failed")]
            /\ left' = [left EXCEPT ![w] = 0]
            /\ pc' = [pc EXCEPT ![w] = "reply"]
            /\ reply' = [reply EXCEPT ![w] = "error"]
            /\ clean' = FALSE
            /\ shadow' = NoShadow
            /\ UNCHANGED <<indexes, indexed>>
  /\ UNCHANGED <<documents, document_ids, cur, mbox, nops, assigned>>

\* on_request: send_reply or send_error, the end of the request
send_reply(w) ==
  /\ UNCHANGED <<metaVars, searchVars, indexed>>
  /\ pc[w] = "reply"
  /\ pc' = [pc EXCEPT ![w] = "idle"]
  /\ reply' = [reply EXCEPT ![w] = "none"]
  /\ cur' = [cur EXCEPT ![w] = NoDoc]
  /\ trace' = [trace EXCEPT ![w] = <<>>]
  /\ mbox' = [mbox EXCEPT ![w] = "m1"]
  /\ UNCHANGED <<documents, document_ids, indexes, left, nops, assigned, clean, shadow>>

\* on_compact: database::compact over the whole key range
on_compact ==
  /\ UNCHANGED <<metaVars, searchVars, indexed>>
  /\ \E k \in AllKeys : indexes[k].ops # <<>>
  /\ indexes' = [k \in AllKeys |-> CompactEntry(k, indexes[k])]
  /\ UNCHANGED <<documents, document_ids, pc, cur, left, mbox, reply, trace,
                 nops, assigned, clean, shadow>>

\* the process dies: every request in flight is lost, the stores keep what
\* was committed
crash ==
  /\ UNCHANGED <<metaVars, searchVars, indexed>>
  /\ \E w \in Workers : pc[w] # "idle"
  /\ pc' = [w \in Workers |-> "idle"]
  /\ cur' = [w \in Workers |-> NoDoc]
  /\ left' = [w \in Workers |-> 0]
  /\ reply' = [w \in Workers |-> "none"]
  /\ trace' = [w \in Workers |-> <<>>]
  /\ clean' = FALSE
  /\ shadow' = NoShadow
  /\ mbox' = [w \in Workers |-> "m1"]
  /\ UNCHANGED <<documents, document_ids, indexes, nops, assigned>>

\* the metadata of a database object before open(): metadata::metadata()
MetaConstructed ==
  /\ db_state = "closed"
  /\ m_seq = 0
  /\ m_dirty = FALSE
  /\ meta_disk = NoValue
  /\ timer_pc = "stopped"
  /\ meta_serialized = NoValue
  /\ seq_pc = [w \in Workers |-> "idle"]
  /\ returned = {}
  /\ reuse = FALSE
  /\ io_ok = TRUE
  /\ covered = {}
  /\ died = FALSE

NoRequest == [kind |-> "none"]
NoResponse == [kind |-> "none"]

\* no search request has been received
\* no key-by-key search and no index operation beside it has started
ReaderIdle ==
  /\ rpc = "idle"
  /\ rq = NoRequest
  /\ rix = <<>>
  /\ rdocs = <<>>
  /\ rseen = {}
  /\ rres = NoResponse
  /\ ipc = "idle"
  /\ idoc = NoDoc

RetrieverIdle ==
  /\ ReaderIdle
  /\ spc = "idle"
  /\ sq = NoRequest
  /\ sres = NoResponse
  /\ sacc = <<>>
  /\ sndocs = 0

\* no index request is being followed entry by entry
BatchIdle ==
  /\ bpc = "idle"
  /\ bleft = 0
  /\ breq = <<>>
  /\ bwritten = {}
  /\ breply = "none"

\* no request is being followed step by step
NoHttpRequest == [handler |-> "none", body |-> "none"]

\* no connection has a request
ConnectionsIdle ==
  /\ hpc = [w \in Workers |-> "idle"]
  /\ hreq = [w \in Workers |-> NoHttpRequest]
  /\ hplan = [w \in Workers |-> <<>>]
  /\ hsent = [w \in Workers |-> <<>>]

\* the compact tool has not been started
CompactIdle ==
  /\ cpc = "idle"
  /\ ccol = <<>>
  /\ csize = 0
  /\ cit = 0
  /\ cstart = 0
  /\ cend = 0
  /\ current_size = 0
  /\ cchunks = <<>>
  /\ cstale = FALSE

HandlersIdle ==
  /\ BatchIdle
  /\ ConnectionsIdle
  /\ CompactIdle

\* no search request has been made
SearchConstructed ==
  /\ RetrieverIdle
  /\ HandlersIdle
  /\ ex_pc = "idle"
  /\ ex_tokens = <<>>
  /\ ex_content = <<>>
  /\ ex_match = FALSE

Init ==
  /\ MetaConstructed
  /\ SearchConstructed
  /\ documents = <<>>
  /\ document_ids = <<>>
  /\ indexes = [k \in AllKeys |-> EmptyEntry]
  /\ pc = [w \in Workers |-> "idle"]
  /\ cur = [w \in Workers |-> NoDoc]
  /\ left = [w \in Workers |-> 0]
  /\ mbox = [w \in Workers |-> "m1"]
  /\ reply = [w \in Workers |-> "none"]
  /\ trace = [w \in Workers |-> <<>>]
  /\ nops = 0
  /\ assigned = {}
  /\ clean = TRUE
  /\ indexed = {}
  /\ shadow = [documents |-> <<>>, document_ids |-> <<>>,
               indexes |-> [k \in AllKeys |-> NoValue]]

Next ==
  \/ \E w \in Workers : on_request(w)
  \/ \E w \in Workers : parse_docs_invalid(w)
  \/ \E w \in Workers : parse_docs(w)
  \/ \E w \in Workers : write_docs(w)
  \/ \E w \in Workers : write_indexes(w)
  \/ \E w \in Workers : send_reply(w)
  \/ on_compact
  \/ crash

Spec == Init /\ [][Next]_vars


(***************************************************************************)
(* Properties of the stores under the index handler.                        *)
(***************************************************************************)
AllIdle == \A w \in Workers : pc[w] = "idle"

StrictlyAscendingIds(s) == \A i \in 1..(Len(s) - 1) : IdLess(s[i], s[i + 1])

\* the ids of a posting list as a reader sees it
PostingIds(k) == Range(ReadList(indexes, k))

\* C1: every posting list under an index. key, the value kept by the engine
\* and the value a reader gets after the pending operands are merged, holds
\* its document ids in strictly ascending indexed_id order, without duplicates.
C1_PostingListsAscending ==
  \A k \in IndexKeys :
    /\ indexes[k].base.kind = "bytes" => StrictlyAscendingIds(deserialize(indexes[k].base).value)
    /\ Read(indexes, k).kind = "bytes" => StrictlyAscendingIds(ReadList(indexes, k))

\* C1 witness: a merge onto an old value of an operand that is smaller than
\* the id the old value holds.
C1_Witness ==
  \E k \in IndexKeys :
    /\ indexes[k].base.kind = "bytes"
    /\ Len(indexes[k].base.data) = 1
    /\ \E i \in DOMAIN indexes[k].ops :
         IdLess(indexes[k].ops[i].data, indexes[k].base.data[1])
    /\ Len(ReadList(indexes, k)) = 2

\* C3: a shard whose posting list holds a document id is a member of the
\* token's ShardSet, in every state, also while index calls are in flight.
C3_ShardListed ==
  \A m \in Mailboxes, tp \in TokenPairs, s \in AllShards :
    PostingIds(index_key(m, tp, s)) # {} =>
      /\ Read(indexes, shard_key(m, tp)).kind = "bytes"
      /\ s \in Range(ReadList(indexes, shard_key(m, tp)))

\* C3 witness: a token has a posting in one shard while another call, whose
\* document belongs to another shard, is between its two commits.
C3_Witness ==
  \E w \in Workers, m \in Mailboxes, tp \in TokenPairs, s \in AllShards :
    /\ pc[w] = "write_indexes"
    /\ PostingIds(index_key(m, tp, s)) # {}
    /\ generate_shard_number(cur[w].indexed_id) # s

\* C4: every indexed_id of every posting list, merged or still an operand,
\* has a Document record under its key in the documents column.
C4_NoDanglingIndexEntry ==
  \A k \in IndexKeys :
    \A i \in Range(indexes[k].base.data)
               \cup {indexes[k].ops[n].data : n \in DOMAIN indexes[k].ops} :
      to_string(i) \in DOMAIN documents

\* C4 witness: after a failed indexes write or the death of the process, a
\* document is stored but in no posting list, beside one that is indexed.
C4_Witness ==
  /\ ~clean
  /\ AllIdle
  /\ \E d \in DOMAIN documents : \A k \in IndexKeys : d \notin PostingIds(k)
  /\ \E d \in DOMAIN documents : \E k \in IndexKeys : d \in PostingIds(k)

\* C5: for one document the docs batch is committed before the indexes batch
\* is attempted; when the docs write fails no indexes write follows, the
\* failing step leaves the indexes store as it is, and the request ends with
\* the error.
C5_DocsBeforeIndexes ==
  /\ [](\A w \in Workers :
          /\ trace[w] \in {<<>>, <<"docs_ok">>, <<"docs_failed">>,
                           <<"docs_ok", "indexes_ok">>, <<"docs_ok", "indexes_failed">>}
          /\ trace[w] = <<"docs_failed">> => pc[w] = "reply" /\ reply[w] = "error")
  /\ [][\A w \in Workers :
          (trace[w] = <<>> /\ trace'[w] = <<"docs_failed">>) => indexes' = indexes]_vars

\* C5 witness: a docs write has failed while the indexes store already holds
\* postings of another document.
C5_Witness ==
  \E w \in Workers :
    /\ trace[w] = <<"docs_failed">>
    /\ \E k \in IndexKeys : PostingIds(k) # {}
    /\ \A k \in IndexKeys : cur[w].indexed_id \notin PostingIds(k)

\* C6: any two documents the index handler has parsed got distinct
\* indexed_ids.
C6_DistinctIndexedIds == Cardinality(assigned) = nops

\* C7: when every call has ended without a failure, the stores hold what they
\* hold when the same calls commit one after the other.
C7_OrderIndependent ==
  (clean /\ AllIdle) =>
     /\ documents = shadow.documents
     /\ document_ids = shadow.document_ids
     /\ \A k \in AllKeys : Read(indexes, k) = shadow.indexes[k]

\* C8: after successful index operations, the external id of every Document
\* record resolves in the document_ids column to the key of that record.
C8_ExternalIdResolves ==
  (clean /\ AllIdle) =>
     \A k \in DOMAIN documents :
       /\ deserialize(documents[k]).value.id \in DOMAIN document_ids
       /\ to_string(deserialize(document_ids[deserialize(documents[k]).value.id]).value) = k

\* C9: a Document record, once written, is never changed or removed.
C9_DocumentImmutable ==
  [][\A k \in DOMAIN documents : k \in DOMAIN documents' /\ documents'[k] = documents[k]]_vars

\* the index write of worker w's document has just committed
IndexesCommitted(w) ==
  trace[w] = <<"docs_ok">> /\ trace'[w] = <<"docs_ok", "indexes_ok">>

\* the number of entries of the list s equal to x
Count(s, x) == Cardinality({n \in DOMAIN s : s[n] = x})

\* C11: when an index request is applied again with the same timestamp and
\* the same seq, every posting list it contributes to keeps exactly one entry
\* for the document and no ShardSet changes; when it is applied with a
\* timestamp it was not applied with before, every such posting list holds
\* the entry of the earlier application and one more for this one.
C11_ReapplyIdempotent ==
  [][\A w \in Workers :
       IndexesCommitted(w) =>
         LET i == cur[w].indexed_id
             keys == {index_key(cur[w].mbox, tp, generate_shard_number(i)) : tp \in cur[w].idx}
         IN \A k \in keys :
              /\ i \in PostingIds(k) =>
                   /\ ReadList(indexes', k) = ReadList(indexes, k)
                   /\ Count(ReadList(indexes', k), i) = 1
                   /\ \A sk \in ShardKeys : Read(indexes', sk) = Read(indexes, sk)
              /\ \A j \in PostingIds(k) :
                   (i \notin PostingIds(k) /\ j[3] = i[3] /\ <<j[1], j[2]>> # <<i[1], i[2]>>) =>
                     /\ Count(ReadList(indexes', k), i) = 1
                     /\ Count(ReadList(indexes', k), j) = 1
                     /\ Len(ReadList(indexes', k)) = Len(ReadList(indexes, k)) + 1]_vars

\* C11 witness: the same request was applied twice with one timestamp (the
\* key holds the id twice, as value and operand or as two operands, and reads
\* as one entry), and no other document was indexed.
C11_Witness ==
  /\ AllIdle
  /\ nops = 2
  /\ \E k \in IndexKeys, i \in AllIds :
       /\ Count((IF indexes[k].base.kind = "bytes" THEN indexes[k].base.data ELSE <<>>)
                \o [n \in DOMAIN indexes[k].ops |-> indexes[k].ops[n].data], i) = 2
       /\ ReadList(indexes, k) = <<i>>

(***************************************************************************)
(* The merge operator under the engine alone: one key of the indexes store  *)
(* receives arbitrary merge operands, and the engine merges any number of   *)
(* the oldest of them into the stored value.                                *)
(***************************************************************************)
\* operands pending on the key
MaxOperands == 2
\* shard ids carried by one token_shards operand
MaxOperandLen == 2

MergeShards == {0, 1}
MergeKeys == {shard_key("m1", <<"title", "a">>), index_key("m1", <<"title", "a">>, 0),
              <<"greylock.meta.key">>}

RECURSIVE SeqsUpTo(_, _)
SeqsUpTo(S, n) ==
  IF n = 0 THEN {<<>>}
  ELSE LET shorter == SeqsUpTo(S, n - 1)
       IN shorter \cup {Append(q, x) : q \in shorter, x \in S}

\* the bytes a writer can hand to Merge() for a key
OperandsOf(key) ==
  IF key[1] = "token_shards."
  THEN {serialize(q) : q \in SeqsUpTo(MergeShards, MaxOperandLen)} \cup {Corrupt}
  ELSE IF key[1] = "index." THEN {serialize(i) : i \in AllIds} \cup {Corrupt}
  ELSE {serialize(<<0>>)}

\* rocksdb::DB::Merge: the operand is put on top of the key
engine_merge(k) ==
  /\ UNCHANGED <<metaVars, searchVars, indexed>>
  /\ Len(indexes[k].ops) < MaxOperands
  /\ \E o \in OperandsOf(k) :
       indexes' = [indexes EXCEPT ![k].ops = Append(@, o)]
  /\ UNCHANGED <<documents, document_ids, pc, cur, left, mbox, reply, trace,
                 nops, assigned, clean, shadow>>

\* the engine calls FullMerge with the stored value and the n oldest operands
\* and stores new_value when the operator returns true
engine_full_merge(k) ==
  /\ UNCHANGED <<metaVars, searchVars, indexed>>
  /\ \E n \in 1..Len(indexes[k].ops) :
       LET r == FullMerge(k, indexes[k].base, SubSeq(indexes[k].ops, 1, n))
       IN /\ r.ok
          /\ indexes' = [indexes EXCEPT ![k] =
                           [base |-> r.value,
                            ops |-> SubSeq(indexes[k].ops, n + 1, Len(indexes[k].ops))]]
  /\ UNCHANGED <<documents, document_ids, pc, cur, left, mbox, reply, trace,
                 nops, assigned, clean, shadow>>

\* the engine offers two adjacent operands to PartialMerge and puts the
\* combined operand in their place when the operator returns true; declined,
\* the operands stay as they are
engine_partial_merge(k) ==
  /\ UNCHANGED <<metaVars, searchVars, indexed>>
  /\ \E n \in 1..(Len(indexes[k].ops) - 1) :
       LET r == PartialMerge(k, indexes[k].ops[n], indexes[k].ops[n + 1])
       IN indexes' = IF r.ok
                     THEN [indexes EXCEPT ![k].ops =
                             SubSeq(@, 1, n - 1) \o <<r.value>> \o SubSeq(@, n + 2, Len(@))]
                     ELSE indexes
  /\ UNCHANGED <<documents, document_ids, pc, cur, left, mbox, reply, trace,
                 nops, assigned, clean, shadow>>

InitMerge ==
  /\ MetaConstructed
  /\ SearchConstructed
  /\ \E k \in MergeKeys : indexes = [x \in {k} |-> EmptyEntry]
  /\ documents = <<>>
  /\ document_ids = <<>>
  /\ pc = [w \in Workers |-> "idle"]
  /\ cur = [w \in Workers |-> NoDoc]
  /\ left = [w \in Workers |-> 0]
  /\ mbox = [w \in Workers |-> "m1"]
  /\ reply = [w \in Workers |-> "none"]
  /\ trace = [w \in Workers |-> <<>>]
  /\ nops = 0
  /\ assigned = {}
  /\ clean = TRUE
  /\ indexed = {}
  /\ shadow = NoShadow

NextMerge ==
  \/ \E k \in DOMAIN indexes : engine_merge(k)
  \/ \E k \in DOMAIN indexes : engine_full_merge(k)
  \/ \E k \in DOMAIN indexes : engine_partial_merge(k)

SpecMerge == InitMerge /\ [][NextMerge]_vars

StrictlyAscending(s) == \A i \in 1..(Len(s) - 1) : s[i] < s[i + 1]

\* C2: the ShardSet under a token_shards. key, as stored and as a reader gets
\* it after the pending operands are merged, holds its shard ids in strictly
\* ascending order without duplicates, whatever operands were merged.
C2_ShardSetsAscending ==
  \A k \in DOMAIN indexes :
    k[1] = "token_shards." =>
      /\ indexes[k].base.kind = "bytes" => StrictlyAscending(deserialize(indexes[k].base).value)
      /\ Read(indexes, k).kind = "bytes" => StrictlyAscending(ReadList(indexes, k))

\* C2 witness: an old value of two shards receives an operand that repeats a
\* shard and lists its shards in descending order.
C2_Witness ==
  \E k \in DOMAIN indexes :
    /\ k[1] = "token_shards."
    /\ indexes[k].base = serialize(<<0, 1>>)
    /\ indexes[k].ops = <<serialize(<<1, 0>>), serialize(<<1, 1>>)>>

Perms(n) == {f \in [1..n -> 1..n] : \A a, b \in 1..n : f[a] = f[b] => a = b}

\* C12: on a token_shards. or index. key, one FullMerge over all pending
\* operands gives the result that FullMerge gives over the operands in any
\* other order, and the value that merging a prefix of the operands first and
\* the remaining operands onto that result gives.
C12_MergeAssociativeCommutative ==
  \A k \in DOMAIN indexes :
    k[1] \in {"token_shards.", "index."} =>
      LET old == indexes[k].base
          operands == indexes[k].ops
          all == FullMerge(k, old, operands)
      IN /\ \A f \in Perms(Len(operands)) :
              FullMerge(k, old, [n \in DOMAIN operands |-> operands[f[n]]]) = all
         /\ \A n \in 1..(Len(operands) - 1) :
              all.ok =>
                /\ FullMerge(k, old, SubSeq(operands, 1, n)).ok
                /\ FullMerge(k, FullMerge(k, old, SubSeq(operands, 1, n)).value,
                             SubSeq(operands, n + 1, Len(operands))) = all

\* C12 witness: a posting list with an old value and two different operands
\* pending in descending order.
C12_Witness ==
  \E k \in DOMAIN indexes :
    /\ k[1] = "index."
    /\ indexes[k].base.kind = "bytes"
    /\ Len(indexes[k].base.data) >= 1
    /\ Len(indexes[k].ops) = 2
    /\ indexes[k].ops[1].kind = "bytes"
    /\ indexes[k].ops[2].kind = "bytes"
    /\ IdLess(indexes[k].ops[2].data, indexes[k].ops[1].data)
    /\ IdLess(indexes[k].ops[2].data, indexes[k].base.data[1])
\* the values of the old value and the operands, when all of them deserialize
MergedData(e) ==
  (IF e.base.kind = "none" THEN <<>> ELSE <<e.base.data>>)
  \o [n \in DOMAIN e.ops |-> e.ops[n].data]

\* C13: the merge depends on the key prefix alone: under token_shards. the
\* operands and the old value merge into the union of their shard ids, under
\* index. into the union of the old ids and the operand ids, under any other
\* prefix the merge fails and the key never gets a value from it; a partial
\* merge of two operands is declined for every key.
C13_DispatchByPrefix ==
  \A k \in DOMAIN indexes :
    LET e == indexes[k]
        valid == AllDeserialize(e.base, e.ops)
    IN /\ (k[1] = "token_shards." /\ e.ops # <<>>) =>
            IF valid
            THEN /\ Read(indexes, k).kind = "bytes"
                 /\ Range(ReadList(indexes, k))
                      = UNION {Range(MergedData(e)[n]) : n \in DOMAIN MergedData(e)}
            ELSE Read(indexes, k) = Corrupt
       /\ (k[1] = "index." /\ e.ops # <<>>) =>
            IF valid
            THEN /\ Read(indexes, k).kind = "bytes"
                 /\ Range(ReadList(indexes, k))
                      = (IF e.base.kind = "none" THEN {} ELSE Range(e.base.data))
                        \cup {e.ops[n].data : n \in DOMAIN e.ops}
            ELSE Read(indexes, k) = Corrupt
       /\ k[1] \notin {"token_shards.", "index."} =>
            /\ e.base = NoValue
            /\ e.ops # <<>> => ~FullMerge(k, e.base, e.ops).ok /\ Read(indexes, k) = Corrupt
       /\ \A a, b \in OperandsOf(k) : ~PartialMerge(k, a, b).ok

\* C13 witness: the metadata key has received two merge operands; the engine
\* has nothing to store for it.
C13_Witness ==
  \E k \in DOMAIN indexes :
    /\ k[1] = "greylock.meta.key"
    /\ Len(indexes[k].ops) = 2

(***************************************************************************)
(* The metadata of one database: the sequence counter, its dirty flag, the  *)
(* timer thread that writes it, shutdown and reopen.                        *)
(***************************************************************************)
\* values the counter may reach in one behaviour
MaxSeq == 3

\* metadata::serialize_version_2
serialize_version_2 == 2

\* metadata::msgpack_pack: the array [version, m_seq]
msgpack_pack(seq) == serialize(<<serialize_version_2, seq>>)

\* metadata::msgpack_unpack: the version must equal the array size and be 2
msgpack_unpack(b) ==
  IF deserialize(b).err THEN [err |-> TRUE, seq |-> 0]
  ELSE LET o == deserialize(b).value
       IN IF o[1] # Len(o) THEN [err |-> TRUE, seq |-> 0]
          ELSE IF o[1] = serialize_version_2 THEN [err |-> FALSE, seq |-> o[2]]
          ELSE [err |-> TRUE, seq |-> 0]

\* database::open: the metadata key is read and, when present, unpacked into
\* m_meta; sync_metadata_callback then finds nothing dirty and arms the timer
open ==
  /\ db_state = "closed"
  /\ IF meta_disk.kind = "none"
     THEN /\ m_seq' = 0
          /\ db_state' = "open"
          /\ timer_pc' = "armed"
     ELSE IF msgpack_unpack(meta_disk).err
          THEN UNCHANGED <<m_seq, db_state, timer_pc>>
          ELSE /\ m_seq' = msgpack_unpack(meta_disk).seq
               /\ db_state' = "open"
               /\ timer_pc' = "armed"
  /\ m_dirty' = FALSE
  /\ UNCHANGED <<meta_disk, meta_serialized, seq_pc, returned, reuse, io_ok>>
  /\ UNCHANGED <<covered, died>>
  /\ UNCHANGED <<indexVars, searchVars>>

\* metadata::get_sequence, first statement: m_dirty = true
get_sequence_dirty(w) ==
  /\ db_state = "open"
  /\ seq_pc[w] = "idle"
  /\ m_seq < MaxSeq
  /\ m_dirty' = TRUE
  /\ seq_pc' = [seq_pc EXCEPT ![w] = "increment"]
  /\ UNCHANGED <<db_state, m_seq, meta_disk, timer_pc, meta_serialized, returned, reuse, io_ok>>
  /\ UNCHANGED <<covered, died>>
  /\ UNCHANGED <<indexVars, searchVars>>

\* metadata::get_sequence, second statement: return m_seq++
get_sequence_increment(w) ==
  /\ seq_pc[w] = "increment"
  /\ m_seq' = m_seq + 1
  /\ returned' = returned \cup {m_seq}
  /\ reuse' = (reuse \/ m_seq \in returned)
  /\ seq_pc' = [seq_pc EXCEPT ![w] = "idle"]
  /\ UNCHANGED <<db_state, m_dirty, meta_disk, timer_pc, meta_serialized, io_ok>>
  /\ UNCHANGED <<covered, died>>
  /\ UNCHANGED <<indexVars, searchVars>>

\* sync_metadata on the timer thread: if (!m_meta.dirty()) return
sync_metadata_check ==
  /\ timer_pc = "armed"
  /\ timer_pc' = IF m_dirty THEN "serialize" ELSE "armed"
  /\ UNCHANGED <<db_state, m_seq, m_dirty, meta_disk, meta_serialized, seq_pc,
                 returned, reuse, io_ok>>
  /\ UNCHANGED <<covered, died>>
  /\ UNCHANGED <<indexVars, searchVars>>

\* sync_metadata on the timer thread: meta_serialized = serialize(m_meta)
sync_metadata_serialize ==
  /\ timer_pc = "serialize"
  /\ meta_serialized' = msgpack_pack(m_seq)
  /\ timer_pc' = "put"
  /\ UNCHANGED <<db_state, m_seq, m_dirty, meta_disk, seq_pc, returned, reuse, io_ok>>
  /\ UNCHANGED <<covered, died>>
  /\ UNCHANGED <<indexVars, searchVars>>

\* sync_metadata on the timer thread: m_db->Put of the metadata key; a failed
\* Put returns the error and leaves the flag set
sync_metadata_put ==
  /\ timer_pc = "put"
  /\ \E ok \in BOOLEAN :
       IF ok
       THEN /\ meta_disk' = meta_serialized
            /\ timer_pc' = "clear"
            /\ covered' = returned
            /\ UNCHANGED io_ok
       ELSE /\ timer_pc' = "armed"
            /\ io_ok' = FALSE
            /\ UNCHANGED <<meta_disk, covered>>
  /\ meta_serialized' = NoValue
  /\ UNCHANGED <<db_state, m_seq, m_dirty, seq_pc, returned, reuse, died>>
  /\ UNCHANGED <<indexVars, searchVars>>

\* sync_metadata on the timer thread: m_meta.clear_dirty(), and the callback
\* arms the timer again
sync_metadata_clear ==
  /\ timer_pc = "clear"
  /\ m_dirty' = FALSE
  /\ timer_pc' = "armed"
  /\ UNCHANGED <<db_state, m_seq, meta_disk, meta_serialized, seq_pc, returned, reuse, io_ok>>
  /\ UNCHANGED <<covered, died>>
  /\ UNCHANGED <<indexVars, searchVars>>

\* database::~database after the workers have ended: the timer is stopped
\* between two runs of its callback, then sync_metadata(NULL) runs on the
\* destroying thread
shutdown ==
  /\ db_state = "open"
  /\ timer_pc = "armed"
  /\ \A w \in Workers : seq_pc[w] = "idle"
  /\ \E ok \in BOOLEAN :
       /\ meta_disk' = IF m_dirty /\ ok THEN msgpack_pack(m_seq) ELSE meta_disk
       /\ covered' = IF m_dirty /\ ok THEN returned ELSE covered
       /\ io_ok' = (io_ok /\ (m_dirty => ok))
  /\ db_state' = "closed"
  /\ timer_pc' = "stopped"
  /\ m_seq' = 0
  /\ m_dirty' = FALSE
  /\ UNCHANGED <<meta_serialized, seq_pc, returned, reuse, died>>
  /\ UNCHANGED <<indexVars, searchVars>>

\* the process dies: the counter in memory and the threads are gone, the
\* metadata key keeps what the last Put wrote
kill ==
  /\ db_state = "open"
  /\ db_state' = "closed"
  /\ timer_pc' = "stopped"
  /\ m_seq' = 0
  /\ m_dirty' = FALSE
  /\ meta_serialized' = NoValue
  /\ seq_pc' = [w \in Workers |-> "idle"]
  /\ died' = TRUE
  /\ UNCHANGED <<meta_disk, returned, reuse, io_ok, covered>>
  /\ UNCHANGED <<indexVars, searchVars>>

InitMeta ==
  /\ MetaConstructed
  /\ SearchConstructed
  /\ documents = <<>>
  /\ document_ids = <<>>
  /\ indexes = [k \in AllKeys |-> EmptyEntry]
  /\ pc = [w \in Workers |-> "idle"]
  /\ cur = [w \in Workers |-> NoDoc]
  /\ left = [w \in Workers |-> 0]
  /\ mbox = [w \in Workers |-> "m1"]
  /\ reply = [w \in Workers |-> "none"]
  /\ trace = [w \in Workers |-> <<>>]
  /\ nops = 0
  /\ assigned = {}
  /\ clean = TRUE
  /\ indexed = {}
  /\ shadow = NoShadow

NextMeta ==
  \/ open
  \/ \E w \in Workers : get_sequence_dirty(w)
  \/ \E w \in Workers : get_sequence_increment(w)
  \/ sync_metadata_check
  \/ sync_metadata_serialize
  \/ sync_metadata_put
  \/ sync_metadata_clear
  \/ shutdown
  \/ kill

SpecMeta == InitMeta /\ [][NextMeta]_vars

\* C10: while no write of the metadata key fails, get_sequence never returns
\* a value it has returned before, in this run of the process or in an
\* earlier one that ended with a clean shutdown.
C10_SequenceNeverReused == (io_ok /\ ~died) => ~reuse


(***************************************************************************)
(* Phrase re-verification: on_search::check_exact over the tokens of an     *)
(* exact attribute and the words of a document's text.                      *)
(***************************************************************************)
\* words in a document's text
MaxContentLen == 3
\* tokens in one exact attribute
MaxPatternLen == 2

Words == {"quick", "fox"}
\* token::positions as a query can carry them
PositionLists == {<<>>, <<0>>, <<1>>, <<2>>, <<0, 1>>, <<1, 0>>}
ExactTokens == [name : Words, positions : PositionLists]

RECURSIVE check_positions_from(_, _, _, _)
\* check_token_positions, the loop over token.positions from its n-th entry
check_positions_from(token, content, content_offset, n) ==
  IF n > Len(token.positions) THEN TRUE
  ELSE LET offset == content_offset + token.positions[n]
       IN IF offset >= Len(content) THEN FALSE
          ELSE IF token.name # content[offset + 1] THEN FALSE
          ELSE check_positions_from(token, content, content_offset, n + 1)

\* a buggy check_token_positions: the offset is compared with > instead of
\* >=, so that a position right past the last word is let through
check_token_positions_off_by_one(token, content, content_offset) ==
  \A n \in DOMAIN token.positions :
    LET offset == content_offset + token.positions[n]
    IN /\ offset <= Len(content)
       /\ offset < Len(content) => token.name = content[offset + 1]

\* the lambda check_token_positions of check_exact
check_token_positions(token, content, content_offset) ==
  check_positions_from(token, content, content_offset, 1)

RECURSIVE check_tokens_from(_, _, _, _)
\* check_exact, the loop over the tokens from the n-th on: match is true
\* before the loop, the loop breaks at the first token that does not match
check_tokens_from(tokens, content, content_offset, n) ==
  IF n > Len(tokens) THEN TRUE
  ELSE IF ~check_token_positions(tokens[n], content, content_offset) THEN FALSE
  ELSE check_tokens_from(tokens, content, content_offset, n + 1)

RECURSIVE check_offsets_from(_, _, _)
\* check_exact, the loop over content_offset
check_offsets_from(tokens, content, content_offset) ==
  IF content_offset >= Len(content) THEN FALSE
  ELSE IF check_tokens_from(tokens, content, content_offset, 1) THEN TRUE
  ELSE check_offsets_from(tokens, content, content_offset + 1)

\* on_search::check_exact
check_exact(tokens, content) == check_offsets_from(tokens, content, 0)

\* a caller hands check_exact the tokens of an exact attribute and the words
\* of the document's title or content
check_exact_call ==
  /\ ex_pc = "call"
  /\ ex_match' = check_exact(ex_tokens, ex_content)
  /\ ex_pc' = "done"
  /\ UNCHANGED <<ex_tokens, ex_content>>
  /\ UNCHANGED <<indexVars, metaVars, queryVars, concVars, handlerVars>>

InitExact ==
  /\ MetaConstructed
  /\ RetrieverIdle
  /\ HandlersIdle
  /\ ex_pc = "call"
  /\ ex_tokens \in SeqsUpTo(ExactTokens, MaxPatternLen)
  /\ ex_content \in SeqsUpTo(Words, MaxContentLen)
  /\ ex_match = FALSE
  /\ documents = <<>>
  /\ document_ids = <<>>
  /\ indexes = [k \in AllKeys |-> EmptyEntry]
  /\ pc = [w \in Workers |-> "idle"]
  /\ cur = [w \in Workers |-> NoDoc]
  /\ left = [w \in Workers |-> 0]
  /\ mbox = [w \in Workers |-> "m1"]
  /\ reply = [w \in Workers |-> "none"]
  /\ trace = [w \in Workers |-> <<>>]
  /\ nops = 0
  /\ assigned = {}
  /\ clean = TRUE
  /\ indexed = {}
  /\ shadow = NoShadow

NextExact == check_exact_call

SpecExact == InitExact /\ [][NextExact]_vars

\* C20: check_exact returns true exactly when some offset o inside the
\* content puts every position p of every token on a word of the content,
\* o + p < len(content), that equals the token's name; so it returns false
\* for an empty content, and a position past the end matches nothing.
C20_CheckExactIffOffset ==
  ex_pc = "done" =>
    ex_match = (\E o \in 0..(Len(ex_content) - 1) :
                  \A n \in DOMAIN ex_tokens :
                    \A m \in DOMAIN ex_tokens[n].positions :
                      LET p == ex_tokens[n].positions[m]
                      IN /\ o + p < Len(ex_content)
                         /\ ex_content[o + p + 1] = ex_tokens[n].name)

\* C20 witness: the pattern [quick(pos 0), fox(pos 1)] was checked on the
\* words fox quick fox: no match at offset 0, a match at offset 1.
C20_Witness ==
  /\ ex_pc = "done"
  /\ ex_tokens = <<[name |-> "quick", positions |-> <<0>>], [name |-> "fox", positions |-> <<1>>]>>
  /\ ex_content = <<"fox", "quick", "fox">>
  /\ ex_match


(***************************************************************************)
(* The Retriever: intersect over the two stores, and the search handler     *)
(* that builds its query from the request and filters with check_exact.     *)
(***************************************************************************)
\* LONG_MAX, as far as the model's integers reach
LONG_MAX == 2147483647

\* the cursor of a first request, and the id no document reaches
ZeroId == <<0, 0, 0>>
MaxId == <<LONG_MAX, LONG_MAX, LONG_MAX>>

\* id_t::set_timestamp on a fresh id: the timestamp is set, seq stays 0
set_timestamp(tsec, tnsec) == <<tsec, tnsec, 0>>

\* the next strictly greater id
NextId(iid) == <<iid[1], iid[2], iid[3] + 1>>

\* a point read of a key the store may not hold
Get(store, key) == IF key \in DOMAIN store THEN Read(store, key) ELSE NoValue

\* the list under a key, empty when the key is missing
GetList(store, key) ==
  LET value == Get(store, key)
  IN IF value.kind = "bytes" THEN deserialize(value).value ELSE <<>>

\* lexicographic order of the attribute and token names of the model
NameRank(n) ==
  CASE n = "a" -> 1 [] n = "b" -> 2 [] n = "c" -> 3 [] n = "title" -> 4 [] n = "to" -> 5
    [] OTHER -> 6

\* every token of a mailbox query, as <<attribute, token>>
QueryTokens(mq) == UNION {{<<a.name, t>> : t \in a.tokens} : a \in mq.attributes}

\* step 1: the ShardSet of a token
TokenShards(ix, mq, tp) == Range(GetList(ix, shard_key(mq.mbox, tp)))

\* step 2: the intersection of the shard sets of an attribute's tokens
AttrShards(ix, mq, a) ==
  {sh \in UNION {TokenShards(ix, mq, <<a.name, t>>) : t \in a.tokens} :
     \A t \in a.tokens : sh \in TokenShards(ix, mq, <<a.name, t>>)}

\* the attributes that can drive: their tokens share at least one shard
DriverAttrs(ix, mq) ==
  {a \in mq.attributes : a.tokens # {} /\ AttrShards(ix, mq, a) # {}}

\* step 2: the driver attribute has the fewest common shards; ties go to the
\* smaller name
driver_attr(ix, mq) ==
  CHOOSE a \in DriverAttrs(ix, mq) :
    \A b \in DriverAttrs(ix, mq) :
      \/ Cardinality(AttrShards(ix, mq, a)) < Cardinality(AttrShards(ix, mq, b))
      \/ /\ Cardinality(AttrShards(ix, mq, a)) = Cardinality(AttrShards(ix, mq, b))
         /\ NameRank(a.name) <= NameRank(b.name)

\* step 2: the primary token is the token of the driver attribute with the
\* fewest shards; ties go to the smaller name
driver_token(ix, mq, attr) ==
  CHOOSE t \in attr.tokens :
    \A u \in attr.tokens :
      \/ Cardinality(TokenShards(ix, mq, <<attr.name, t>>))
           < Cardinality(TokenShards(ix, mq, <<attr.name, u>>))
      \/ /\ Cardinality(TokenShards(ix, mq, <<attr.name, t>>))
              = Cardinality(TokenShards(ix, mq, <<attr.name, u>>))
         /\ NameRank(t) <= NameRank(u)

\* step 2: the primary stream, as <<attribute, token>>
pick_driver(ix, mq) ==
  <<driver_attr(ix, mq).name, driver_token(ix, mq, driver_attr(ix, mq))>>

\* step 3c for one candidate of shard sh: inside the range, in the posting
\* list of every other token for the same shard, its Document stored and
\* accepted by the filter
Matches(ix, docs, iq, mq, accepted, driver, sh, iid) ==
  /\ ~IdLess(iid, iq.range_start)
  /\ IdLess(iid, iq.range_end)
  /\ \A tp \in QueryTokens(mq) \ {driver} :
       iid \in Range(GetList(ix, index_key(mq.mbox, tp, sh)))
  /\ to_string(iid) \in DOMAIN docs
  /\ to_string(iid) \in accepted

RECURSIVE ShardMatches(_, _, _, _, _, _, _, _)
\* steps 3a-3c: the primary posting list of shard sh from the cursor on, the
\* matching candidates in list order
ShardMatches(ix, docs, iq, mq, accepted, driver, sh, primary) ==
  IF primary = <<>> THEN <<>>
  ELSE (IF ~IdLess(Head(primary), iq.next_document_id)
           /\ Matches(ix, docs, iq, mq, accepted, driver, sh, Head(primary))
        THEN <<[id |-> deserialize(docs[to_string(Head(primary))]).value.id,
                indexed_id |-> Head(primary),
                relevance |-> Cardinality(QueryTokens(mq))]>>
        ELSE <<>>)
       \o ShardMatches(ix, docs, iq, mq, accepted, driver, sh, Tail(primary))

\* step 3: the shards of the primary token in ascending order, from the shard
\* of the cursor on
WalkShards(ix, iq, mq, driver) ==
  SortNat({sh \in TokenShards(ix, mq, driver) :
             sh >= generate_shard_number(iq.next_document_id)})

\* the walk of one mailbox query with the given primary token, without the cap
MailboxMatchesBy(ix, docs, iq, mq, accepted, driver) ==
  LET walk == WalkShards(ix, iq, mq, driver)
  IN Flatten([n \in DOMAIN walk |->
                ShardMatches(ix, docs, iq, mq, accepted, driver, walk[n],
                             GetList(ix, index_key(mq.mbox, driver, walk[n])))])

\* steps 1-3 for one mailbox query: nothing without tokens, nothing when a
\* token has no shards or no attribute has a common shard
MailboxMatches(ix, docs, iq, mq, accepted) ==
  IF QueryTokens(mq) = {} THEN <<>>
  ELSE IF \E tp \in QueryTokens(mq) : TokenShards(ix, mq, tp) = {} THEN <<>>
  ELSE IF DriverAttrs(ix, mq) = {} THEN <<>>
  ELSE MailboxMatchesBy(ix, docs, iq, mq, accepted, pick_driver(ix, mq))

RECURSIVE InsertDoc(_, _)
InsertDoc(sorted, d) ==
  IF sorted = <<>> THEN <<d>>
  ELSE IF IdLess(d.indexed_id, Head(sorted).indexed_id) THEN <<d>> \o sorted
  ELSE <<Head(sorted)>> \o InsertDoc(Tail(sorted), d)

RECURSIVE SortDocs(_)
\* the union over the mailboxes sorted by indexed_id, equal ids kept in order
SortDocs(ds) == IF ds = <<>> THEN <<>> ELSE InsertDoc(SortDocs(SubSeq(ds, 1, Len(ds) - 1)), ds[Len(ds)])

\* the matches of the mailbox queries of iq, one mailbox after the other
AllMatches(ix, docs, iq, accepted) ==
  Flatten([n \in DOMAIN iq.se |-> MailboxMatches(ix, docs, iq, iq.se[n], accepted)])

\* step 3c and step 4: the emitted documents stop at max_number with
\* completed=false and the cursor after the last one; otherwise all of them
\* with completed=true; the result is sorted
emit(iq, all) ==
  IF Len(all) >= iq.max_number
  THEN [docs |-> SortDocs(SubSeq(all, 1, iq.max_number)),
        completed |-> FALSE,
        next_document_id |-> NextId(all[iq.max_number].indexed_id)]
  ELSE [docs |-> SortDocs(all), completed |-> TRUE, next_document_id |-> MaxId]

\* intersector::intersect(iq, check); accepted holds the keys of the
\* Documents the filter lets through
intersect(ix, docs, iq, accepted) ==
  IF iq.max_number = 0
  THEN [docs |-> <<>>, completed |-> FALSE, next_document_id |-> iq.next_document_id]
  ELSE emit(iq, AllMatches(ix, docs, iq, accepted))

\* documents a search behaviour indexes before it searches
MaxSearchDocs == 2

SearchMailboxes == {"m1", "m2"}
SearchTokenPairs == {<<"title", "a">>, <<"title", "b">>, <<"to", "c">>}
SearchKeys ==
  {index_key(m, tp, sh) : m \in SearchMailboxes, tp \in SearchTokenPairs, sh \in AllShards}
  \cup {shard_key(m, tp) : m \in SearchMailboxes, tp \in SearchTokenPairs}

\* the mailbox, "index" object and "content" object of the documents of a
\* search behaviour
DocInputs ==
  { [mbox |-> "m1", idx |-> {<<"title", "a">>, <<"title", "b">>, <<"to", "c">>},
     ctx |-> [title |-> <<"a", "b">>, content |-> <<"c">>]],
    [mbox |-> "m1", idx |-> {<<"title", "a">>, <<"to", "c">>},
     ctx |-> [title |-> <<"a">>, content |-> <<"c">>]],
    [mbox |-> "m2", idx |-> {<<"title", "a">>, <<"to", "c">>},
     ctx |-> [title |-> <<"a">>, content |-> <<"c">>]] }

\* split_content: the lower-case words of a text; a text of the model is
\* kept as the list of its words
split_content(text) == text

\* attr.name.find("title") != npos, over the attribute names of the model
NameHasTitle(name) == name = "title"

\* on_search::check_result: every exact attribute of every mailbox query of
\* the request must match the document's title or content
check_result(iq, doc) ==
  \A n \in DOMAIN iq.se :
    \A m \in DOMAIN iq.se[n].exact :
      check_exact(iq.se[n].exact[m].tokens,
                  split_content(IF NameHasTitle(iq.se[n].exact[m].name)
                                THEN doc.ctx.title ELSE doc.ctx.content))

\* a buggy paging: a max_number of 0 is taken as not given
paging_zero_is_unset(req) ==
  IF req.paging.present
  THEN [next_document_id |-> req.paging.next_document_id,
        max_number |-> IF req.paging.has_max /\ req.paging.max_number # 0
                       THEN req.paging.max_number ELSE LONG_MAX]
  ELSE [next_document_id |-> ZeroId, max_number |-> LONG_MAX]

\* on_request: next_document_id and max_number from the "paging" object,
\* max_number defaults to LONG_MAX; without the object the query keeps the
\* zero cursor and no cap
paging(req) ==
  IF req.paging.present
  THEN [next_document_id |-> req.paging.next_document_id,
        max_number |-> IF req.paging.has_max THEN req.paging.max_number ELSE LONG_MAX]
  ELSE [next_document_id |-> ZeroId, max_number |-> LONG_MAX]

\* a buggy time range: the end second is included
time_range_end_inclusive(req) ==
  [range_start |-> set_timestamp(IF req.time.present THEN req.time.start ELSE 0, 0),
   range_end |-> set_timestamp(IF req.time.present THEN req.time.end ELSE LONG_MAX, LONG_MAX)]

\* on_request: sec_start and sec_end from the "time" object, 0 and LONG_MAX
\* without it, set as the timestamps of range_start and range_end
time_range(req) ==
  [range_start |-> set_timestamp(IF req.time.present THEN req.time.start ELSE 0, 0),
   range_end |-> set_timestamp(IF req.time.present THEN req.time.end ELSE LONG_MAX, 0)]

\* on_request: the intersection_query built from the request
intersection_query(req) ==
  [se |-> req.request,
   next_document_id |-> paging(req).next_document_id,
   max_number |-> paging(req).max_number,
   range_start |-> time_range(req).range_start,
   range_end |-> time_range(req).range_end]

\* the keys of the Documents check_result accepts
Accepted(docs, iq) ==
  {k \in DOMAIN docs : check_result(iq, deserialize(docs[k]).value)}

\* send_search_result: ids, completed and next_document_id of the result
send_search_result(result) ==
  [kind |-> "ok",
   ids |-> [n \in DOMAIN result.docs |->
              [id |-> result.docs[n].id, indexed_id |-> result.docs[n].indexed_id]],
   completed |-> result.completed,
   next_document_id |-> result.next_document_id]

\* on_search::on_request: a request that does not parse or has no "request"
\* object is answered with an error, any other with the result of intersect
search_response(ix, docs, req) ==
  IF req.kind # "search" THEN [kind |-> "error"]
  ELSE LET iq == intersection_query(req)
       IN send_search_result(intersect(ix, docs, iq, Accepted(docs, iq)))

\* the mailbox queries of the search requests: the "request" object
TitleA == {[name |-> "title", tokens |-> {"a"}]}
TitleABToC == {[name |-> "title", tokens |-> {"a", "b"}], [name |-> "to", tokens |-> {"c"}]}
NoExact == <<>>
ExactAB == <<[name |-> "title",
              tokens |-> <<[name |-> "a", positions |-> <<0>>],
                           [name |-> "b", positions |-> <<1>>]>>]>>
MailboxQueries ==
  {[mbox |-> m, attributes |-> at, exact |-> ex] :
     m \in SearchMailboxes, at \in {TitleA, TitleABToC}, ex \in {NoExact, ExactAB}}
RequestObjects ==
  {<<q>> : q \in {mq \in MailboxQueries : mq.mbox = "m1"}}
  \cup {<<q, [mbox |-> "m2", attributes |-> TitleA, exact |-> NoExact]>> :
          q \in {mq \in MailboxQueries : mq.mbox = "m1"}}

\* the "paging" object: absent, or a cursor and a max_number
PageSizes == {0, 1, 2}
NoPaging == [present |-> FALSE, next_document_id |-> ZeroId, has_max |-> FALSE, max_number |-> 0]
PagingObjects ==
  {NoPaging}
  \cup [present : {TRUE}, next_document_id : {ZeroId}, has_max : {TRUE}, max_number : PageSizes]
  \cup {[present |-> TRUE, next_document_id |-> <<2, 0, 0>>, has_max |-> TRUE, max_number |-> 0]}

\* the "time" object: absent, or start and end in seconds
NoTime == [present |-> FALSE, start |-> 0, end |-> 0]
TimeObjects == {NoTime, [present |-> TRUE, start |-> 1, end |-> 2],
                [present |-> TRUE, start |-> 2, end |-> 3]}

SearchRequests ==
  [kind : {"search"}, paging : PagingObjects, time : TimeObjects, request : RequestObjects]
\* a body that does not parse, is no object or has no "request" object
BadRequests ==
  {[kind |-> "invalid", paging |-> NoPaging, time |-> NoTime, request |-> <<>>]}

\* on_index::on_request for a request of one document, both batches written
on_index_committed ==
  /\ spc = "idle"
  /\ sndocs < MaxSearchDocs
  /\ \E id \in ExtIds, ts \in Timestamps, in \in DocInputs :
       LET doc == [id |-> id, indexed_id |-> assign_id(id, Hash(id), ts),
                   mbox |-> in.mbox, ctx |-> in.ctx, idx |-> in.idx]
       IN /\ documents' = PutKey(documents, docs_batch(doc).documents[1],
                                   docs_batch(doc).documents[2])
          /\ document_ids' = PutKey(document_ids, docs_batch(doc).document_ids[1],
                                      docs_batch(doc).document_ids[2])
          /\ indexes' = ApplyMerges(indexes, indexes_batch(doc))
          /\ indexed' = indexed \cup {Indexed(doc)}
  /\ sndocs' = sndocs + 1
  /\ UNCHANGED <<pc, cur, left, mbox, reply, trace, nops, assigned, clean, shadow>>
  /\ UNCHANGED <<metaVars, exactVars, handlerVars, concVars, spc, sq, sres, sacc>>

\* the reply to request req, and the client's view of the pagination
Respond(req) ==
  /\ sq' = req
  /\ sres' = search_response(indexes, documents, req)
  /\ sacc' = (IF spc = "paging" THEN sacc ELSE <<>>)
              \o (IF sres'.kind = "ok" THEN sres'.ids ELSE <<>>)
  /\ spc' = IF sres'.kind = "ok" /\ ~sres'.completed THEN "paging" ELSE "done"
  /\ UNCHANGED <<indexVars, metaVars, exactVars, handlerVars, concVars, sndocs>>

\* on_search::on_request for the first request of a client
search_request ==
  /\ spc = "idle"
  /\ \E req \in SearchRequests \cup BadRequests : Respond(req)

\* on_search::on_request for the request that echoes next_document_id of the
\* response before
search_next_page ==
  /\ spc = "paging"
  /\ Respond([sq EXCEPT !.paging.next_document_id = sres.next_document_id])

InitSearch ==
  /\ MetaConstructed
  /\ SearchConstructed
  /\ documents = <<>>
  /\ document_ids = <<>>
  /\ indexes = [k \in SearchKeys |-> EmptyEntry]
  /\ pc = [w \in Workers |-> "idle"]
  /\ cur = [w \in Workers |-> NoDoc]
  /\ left = [w \in Workers |-> 0]
  /\ mbox = [w \in Workers |-> "m1"]
  /\ reply = [w \in Workers |-> "none"]
  /\ trace = [w \in Workers |-> <<>>]
  /\ nops = 0
  /\ assigned = {}
  /\ clean = TRUE
  /\ indexed = {}
  /\ shadow = NoShadow

NextSearch ==
  \/ on_index_committed
  \/ search_request
  \/ search_next_page

SpecSearch == InitSearch /\ [][NextSearch]_vars


(***************************************************************************)
(* Properties of search responses.                                          *)
(***************************************************************************)
\* the query of the request answered last
LastQuery == intersection_query(sq)

Answered == sq # NoRequest /\ sres # NoResponse /\ sres.kind = "ok"

\* the ids of a response
IdsOf(ids) == {ids[n].indexed_id : n \in DOMAIN ids}

\* the ids found in the posting list of token tp of mailbox m, in any shard
PostedIds(m, tp) ==
  UNION {Range(GetList(indexes, index_key(m, tp, sh))) : sh \in AllShards}

\* the documents of mailbox query mq that a query iq asks for: in the posting
\* list of every token, stored, inside the range, at or after the cursor,
\* accepted by the filter
Wanted(iq, mq) ==
  {i \in UNION {PostedIds(mq.mbox, tp) : tp \in QueryTokens(mq)} :
     /\ \A tp \in QueryTokens(mq) : i \in PostedIds(mq.mbox, tp)
     /\ to_string(i) \in DOMAIN documents
     /\ ~IdLess(i, iq.range_start)
     /\ IdLess(i, iq.range_end)
     /\ ~IdLess(i, iq.next_document_id)
     /\ check_result(iq, deserialize(documents[to_string(i)]).value)}

\* C14: the response to a single-mailbox query holds only documents of the
\* mailbox that are in the posting list of every queried token, inside the
\* range, at or after the cursor and accepted by the filter; it holds all of
\* them unless the cap was reached; and every token of the query, taken as
\* the primary stream, yields the same documents.
C14_IntersectExact ==
  (Answered /\ Len(LastQuery.se) = 1) =>
     LET iq == LastQuery
         mq == iq.se[1]
     IN /\ IdsOf(sres.ids) \subseteq Wanted(iq, mq)
        /\ Len(sres.ids) < iq.max_number => IdsOf(sres.ids) = Wanted(iq, mq)
        /\ \A driver \in QueryTokens(mq) :
             IdsOf(MailboxMatchesBy(indexes, documents, iq, mq,
                                    Accepted(documents, iq), driver)) = Wanted(iq, mq)

\* the response to the request of the current pagination sent without a
\* "paging" object: the zero cursor and no cap
Uncapped == search_response(indexes, documents, [sq EXCEPT !.paging = NoPaging])

\* C16: while the store does not change, every page of a pagination holds at
\* most max_number documents, and when a response has completed=true the
\* pages, one after the other, are the result of the same query without a
\* cap, document by document in its order: nothing repeated, nothing skipped.
C16_PaginationLossless ==
  Answered =>
    /\ Len(sres.ids) <= LastQuery.max_number
    /\ spc = "done" => sacc = Uncapped.ids

\* C17: the documents of every search response are in strictly ascending
\* indexed_id order, timestamp first, then seq, for a query of one mailbox
\* and for the union over the mailboxes of a query of several.
C17_ResultsAscending ==
  Answered =>
    \A n \in 1..(Len(sres.ids) - 1) : IdLess(sres.ids[n].indexed_id, sres.ids[n + 1].indexed_id)

\* the request asks for a page of no documents
ZeroPage == sq.kind = "search" /\ sq.paging.present /\ sq.paging.has_max /\ sq.paging.max_number = 0

RequestStart == set_timestamp(IF sq.time.present THEN sq.time.start ELSE 0, 0)
RequestEnd == set_timestamp(IF sq.time.present THEN sq.time.end ELSE LONG_MAX, 0)

\* the documents a mailbox query asks for when the range is left aside
WantedAnyTime(mq) ==
  Wanted([LastQuery EXCEPT !.range_start = ZeroId, !.range_end = MaxId], mq)

\* C19: every document of a response has range_start <= indexed_id <
\* range_end, so none has the end second as its timestamp; and, for a request
\* from the zero cursor without a cap, every document the query asks for
\* whose indexed_id is in that half-open range is in the response.
C19_RangeHalfOpen ==
  Answered =>
    /\ \A i \in IdsOf(sres.ids) :
         /\ ~IdLess(i, RequestStart)
         /\ IdLess(i, RequestEnd)
         /\ sq.time.present => i[1] # sq.time.end
    /\ (LastQuery.next_document_id = ZeroId /\ LastQuery.max_number = LONG_MAX) =>
         \A n \in DOMAIN LastQuery.se :
           \A i \in WantedAnyTime(LastQuery.se[n]) :
             (~IdLess(i, RequestStart) /\ IdLess(i, RequestEnd)) => i \in IdsOf(sres.ids)

\* C19 witness: a request for the seconds [1, 2) was answered with one
\* document while the query also matches a document of second 2.
C19_Witness ==
  /\ Answered
  /\ sq.time.present
  /\ sq.time.start = 1
  /\ sq.time.end = 2
  /\ LastQuery.max_number = LONG_MAX
  /\ Len(sres.ids) = 1
  /\ sres.ids[1].indexed_id[1] = 1
  /\ \E n \in DOMAIN LastQuery.se : \E i \in WantedAnyTime(LastQuery.se[n]) : i[1] = 2

\* the request for one token of one attribute in one mailbox, without
\* "paging" and "time" objects
SingleTokenRequest(m, tp) ==
  [kind |-> "search", paging |-> NoPaging, time |-> NoTime,
   request |-> <<[mbox |-> m, attributes |-> {[name |-> tp[1], tokens |-> {tp[2]}]},
                  exact |-> NoExact]>>]

\* C15: when no index operation is in flight, a search in the mailbox of a
\* document whose two batches were committed, for any one of its tokens in
\* the token's attribute, with no range, the zero cursor and no cap, returns
\* that document.
C15_IndexedThenFound ==
  AllIdle =>
    \A d \in indexed :
      \A tp \in d.idx :
        LET response == search_response(indexes, documents, SingleTokenRequest(d.mbox, tp))
        IN /\ response.kind = "ok"
           /\ \E n \in DOMAIN response.ids :
                response.ids[n] = [id |-> d.id, indexed_id |-> d.indexed_id]

\* C15 witness: two documents of different shards are indexed, the shard of
\* one of them still an operand on top of a compacted ShardSet.
C15_Witness ==
  /\ AllIdle
  /\ \E d, e \in indexed :
       generate_shard_number(d.indexed_id) # generate_shard_number(e.indexed_id)
  /\ \E k \in ShardKeys : indexes[k].base.kind = "bytes" /\ indexes[k].ops # <<>>

\* the request of the last search reduced to its n-th mailbox query
Alone(n) == [sq EXCEPT !.request = <<sq.request[n]>>]

\* the entries of a response, as a set
Entries(response) == {response.ids[n] : n \in DOMAIN response.ids}

\* C21: the response to a request with several mailbox queries, sent from
\* the zero cursor without a cap, holds the documents of the responses to
\* each of its mailbox queries sent alone, and no others.
C21_UnionOfMailboxes ==
  (Answered /\ LastQuery.next_document_id = ZeroId /\ LastQuery.max_number = LONG_MAX) =>
     Entries(sres) =
       UNION {Entries(search_response(indexes, documents, Alone(n))) : n \in DOMAIN sq.request}

(***************************************************************************)
(* A search beside index operations: the search reads each key of the two   *)
(* stores at a moment of its own, the index operation commits its two       *)
(* batches in between.                                                      *)
(***************************************************************************)
\* documents indexed beside the search
MaxConcDocs == 2

\* the documents of the index operations: those of mailbox m1
ConcInputs == {in \in DocInputs : in.mbox = "m1"}

\* the requests of the search: one mailbox query of m1, no exact pattern, no
\* "paging" and no "time" object
ConcRequests ==
  {[kind |-> "search", paging |-> NoPaging, time |-> NoTime, request |-> <<q>>] :
     q \in {mq \in MailboxQueries : mq.mbox = "m1" /\ mq.exact = NoExact}}

\* step 1: the ShardSet keys the search has not read yet
UnreadShardKeys(six, mq) ==
  {shard_key(mq.mbox, tp) : tp \in QueryTokens(mq)} \ DOMAIN six

\* steps 1-2 leave something to walk: every token has a shard and an
\* attribute has a common shard
HasDriver(six, mq) ==
  /\ \A tp \in QueryTokens(mq) : TokenShards(six, mq, tp) # {}
  /\ DriverAttrs(six, mq) # {}

\* steps 3a and 3c: the posting lists of shard sh, of the primary token and
\* of every other token
ShardIndexKeys(mq, sh) == {index_key(mq.mbox, tp, sh) : tp \in QueryTokens(mq)}

\* step 3c: the candidates of shard sh whose Document is fetched: at or after
\* the cursor, inside the range, in the posting list of every token
ShardCandidates(six, iq, mq, sh) ==
  {iid \in Range(GetList(six, index_key(mq.mbox, pick_driver(six, mq), sh))) :
     /\ ~IdLess(iid, iq.next_document_id)
     /\ ~IdLess(iid, iq.range_start)
     /\ IdLess(iid, iq.range_end)
     /\ \A tp \in QueryTokens(mq) : iid \in Range(GetList(six, index_key(mq.mbox, tp, sh)))}

\* every read of shard sh has been made
ShardRead(six, seen, iq, mq, sh) ==
  /\ ShardIndexKeys(mq, sh) \subseteq DOMAIN six
  /\ {to_string(iid) : iid \in ShardCandidates(six, iq, mq, sh)} \subseteq seen

\* step 3: the shards of the walk with reads left, in walk order
UnreadShards(six, seen, iq, mq) ==
  SelectSeq(WalkShards(six, iq, mq, pick_driver(six, mq)),
            LAMBDA sh : ~ShardRead(six, seen, iq, mq, sh))

\* the keys of the indexes store the search may read next
PendingIndexReads(six, seen, iq, mq) ==
  IF UnreadShardKeys(six, mq) # {} THEN UnreadShardKeys(six, mq)
  ELSE IF ~HasDriver(six, mq) THEN {}
  ELSE IF UnreadShards(six, seen, iq, mq) = <<>> THEN {}
  ELSE ShardIndexKeys(mq, Head(UnreadShards(six, seen, iq, mq))) \ DOMAIN six

\* the keys of the documents column the search may fetch next
PendingDocReads(six, seen, iq, mq) ==
  IF UnreadShardKeys(six, mq) # {} \/ ~HasDriver(six, mq) THEN {}
  ELSE IF UnreadShards(six, seen, iq, mq) = <<>> THEN {}
  ELSE {to_string(iid) :
          iid \in ShardCandidates(six, iq, mq, Head(UnreadShards(six, seen, iq, mq)))} \ seen

\* on_search::on_request up to the call of intersect
reader_start ==
  /\ rpc = "idle"
  /\ \E req \in ConcRequests : rq' = req
  /\ rpc' = "reading"
  /\ UNCHANGED <<indexVars, metaVars, exactVars, handlerVars, queryVars, rix, rdocs, rseen, rres, ipc, idoc>>

\* intersect reads one ShardSet or one posting list
reader_read_index ==
  /\ rpc = "reading"
  /\ \E k \in PendingIndexReads(rix, rseen, intersection_query(rq), rq.request[1]) :
       rix' = PutKey(rix, k, indexes[k])
  /\ UNCHANGED <<indexVars, metaVars, exactVars, handlerVars, queryVars, rpc, rq, rdocs, rseen, rres, ipc, idoc>>

\* intersect fetches the Document of one candidate; a missing Document is
\* not a match
reader_fetch ==
  /\ rpc = "reading"
  /\ PendingIndexReads(rix, rseen, intersection_query(rq), rq.request[1]) = {}
  /\ \E k \in PendingDocReads(rix, rseen, intersection_query(rq), rq.request[1]) :
       /\ rseen' = rseen \cup {k}
       /\ rdocs' = IF k \in DOMAIN documents THEN PutKey(rdocs, k, documents[k]) ELSE rdocs
  /\ UNCHANGED <<indexVars, metaVars, exactVars, handlerVars, queryVars, rpc, rq, rix, rres, ipc, idoc>>

\* intersect returns and the handler sends the result it built from its reads
reader_finish ==
  /\ rpc = "reading"
  /\ PendingIndexReads(rix, rseen, intersection_query(rq), rq.request[1]) = {}
  /\ PendingDocReads(rix, rseen, intersection_query(rq), rq.request[1]) = {}
  /\ rres' = search_response(rix, rdocs, rq)
  /\ rpc' = "done"
  /\ UNCHANGED <<indexVars, metaVars, exactVars, handlerVars, queryVars, rq, rix, rdocs, rseen, ipc, idoc>>

\* process_one_document: db_docs().write(&docs_batch) has committed
conc_write_docs ==
  /\ ipc = "idle"
  /\ sndocs < MaxConcDocs
  /\ \E id \in ExtIds, ts \in Timestamps, in \in ConcInputs :
       LET doc == [id |-> id, indexed_id |-> assign_id(id, Hash(id), ts),
                   mbox |-> in.mbox, ctx |-> in.ctx, idx |-> in.idx]
       IN /\ documents' = PutKey(documents, docs_batch(doc).documents[1],
                                   docs_batch(doc).documents[2])
          /\ document_ids' = PutKey(document_ids, docs_batch(doc).document_ids[1],
                                      docs_batch(doc).document_ids[2])
          /\ idoc' = doc
  /\ ipc' = "indexes"
  /\ sndocs' = sndocs + 1
  /\ UNCHANGED <<indexes, pc, cur, left, mbox, reply, trace, nops, assigned, clean, shadow,
                 indexed>>
  /\ UNCHANGED <<metaVars, exactVars, handlerVars, spc, sq, sres, sacc, rpc, rq, rix, rdocs, rseen, rres>>

\* process_one_document: db_indexes().write(&indexes_batch) commits, or
\* fails and leaves the Document without its index entries
conc_write_indexes ==
  /\ ipc = "indexes"
  /\ \E ok \in BOOLEAN :
       IF ok THEN /\ indexes' = ApplyMerges(indexes, indexes_batch(idoc))
                  /\ indexed' = indexed \cup {Indexed(idoc)}
             ELSE UNCHANGED <<indexes, indexed>>
  /\ ipc' = "idle"
  /\ idoc' = NoDoc
  /\ UNCHANGED <<documents, document_ids, pc, cur, left, mbox, reply, trace, nops, assigned,
                 clean, shadow>>
  /\ UNCHANGED <<metaVars, exactVars, handlerVars, queryVars, rpc, rq, rix, rdocs, rseen, rres>>

InitConc == InitSearch

NextConc ==
  \/ reader_start
  \/ reader_read_index
  \/ reader_fetch
  \/ reader_finish
  \/ conc_write_docs
  \/ conc_write_indexes

SpecConc == InitConc /\ [][NextConc]_vars

\* the Document stored under the indexed_id of a response entry
StoredDocument(e) == deserialize(documents[to_string(e.indexed_id)]).value

\* the response of the key-by-key search is a result, and every document of
\* it has its Document in the docs store and its id in the posting list of
\* every queried token
ReadsTolerated ==
  /\ rres.kind = "ok"
  /\ \A e \in Entries(rres) :
       /\ to_string(e.indexed_id) \in DOMAIN documents
       /\ \A tp \in QueryTokens(rq.request[1]) :
            e.indexed_id \in PostedIds(rq.request[1].mbox, tp)

\* C22: a search that reads each key at a moment of its own beside index
\* operations ends with a result, not an error, and every document of the
\* result is stored in the docs store, is listed under every queried token
\* and carries every queried token.
C22_ConcurrentSearchSound ==
  rpc = "done" =>
    /\ ReadsTolerated
    /\ \A e \in Entries(rres) : QueryTokens(rq.request[1]) \subseteq StoredDocument(e).idx

\* the sequence numbers a fresh database allocates to its first n documents
AllocatedSeqs(n) == 0..(n - 1)

\* every id of the posting list of shard s has seq div tokens_shard_size = s
ShardOfSeq ==
  \A m \in Mailboxes, tp \in TokenPairs, s \in AllShards :
    \A i \in PostingIds(index_key(m, tp, s)) : i[3] \div tokens_shard_size = s

\* C23: every id of the posting list of shard s has seq div
\* tokens_shard_size = s, and seq is the allocated sequence number: once n
\* documents with a token have been indexed into a fresh database without a
\* failure, the token's ShardSet holds the shards of the sequence numbers
\* 0..n-1 and the posting list of each shard has one id per sequence number
\* of the shard.
C23_ShardOfAllocatedSeq ==
  /\ ShardOfSeq
  /\ (AllIdle /\ clean) =>
       \A m \in Mailboxes, tp \in TokenPairs :
         /\ Range(ReadList(indexes, shard_key(m, tp)))
              = {n \div tokens_shard_size : n \in AllocatedSeqs(nops)}
         /\ \A s \in AllShards :
              Len(ReadList(indexes, index_key(m, tp, s)))
                = Cardinality({n \in AllocatedSeqs(nops) : n \div tokens_shard_size = s})

\* the counter the metadata key holds, zero when the key is missing
PersistedSeq == IF meta_disk.kind = "none" THEN 0 ELSE msgpack_unpack(meta_disk).seq

\* database::open leaves the counter at the persisted seq, at zero without a
\* metadata key
OpenRestores ==
  [][(db_state = "closed" /\ db_state' = "open") => m_seq' = PersistedSeq]_vars

\* the counter of an open database is never below the persisted seq
NotBelowPersisted == db_state = "open" => m_seq >= PersistedSeq

\* C24: the counter of an open database is above every value get_sequence
\* had returned when the last flush completed, after a clean shutdown and
\* after the death of the process alike: only values allocated after that
\* flush can be returned again.
C24_RecoveryCoversFlushed ==
  db_state = "open" => \A v \in covered : v < m_seq

\* C25: while the database is open, the dirty flag is set whenever the
\* counter in memory is ahead of the persisted seq, so that the next run of
\* the timer writes every value get_sequence has handed out.
C25_DirtyWhileAhead ==
  (db_state = "open" /\ ~m_dirty) => m_seq <= PersistedSeq

\* some operand of the list does not deserialize
HasBadOperand(operands) == \E i \in DOMAIN operands : deserialize(operands[i]).err

\* FullMerge fails, with no new value, over every prefix of the pending
\* operands of key k that holds an operand that does not deserialize, and
\* over any operands when the old value does not deserialize
MergeRejectsBadBytes(k) ==
  /\ \A n \in 1..Len(indexes[k].ops) :
       HasBadOperand(SubSeq(indexes[k].ops, 1, n)) =>
         FullMerge(k, indexes[k].base, SubSeq(indexes[k].ops, 1, n)) = MergeFailed
  /\ \A n \in 0..Len(indexes[k].ops) :
       FullMerge(k, Corrupt, SubSeq(indexes[k].ops, 1, n)) = MergeFailed

\* the engine has replaced the value of key k in this step only by the merge
\* of operands that all deserialize
ValueReplacedByWholeMerge(k) ==
  indexes'[k].base # indexes[k].base =>
    \E n \in 1..Len(indexes[k].ops) :
      /\ ~HasBadOperand(SubSeq(indexes[k].ops, 1, n))
      /\ indexes'[k].base = FullMerge(k, indexes[k].base, SubSeq(indexes[k].ops, 1, n)).value
      /\ indexes'[k].ops = SubSeq(indexes[k].ops, n + 1, Len(indexes[k].ops))

\* C26: on an index. or token_shards. key the merge operator returns failure
\* and no new value when the old value or an operand does not deserialize,
\* and the stored value is never replaced by the union of the operands that
\* do: it changes only by a merge of operands that all deserialize.
C26_MergeFailureKeepsValue ==
  /\ [](\A k \in DOMAIN indexes :
          k[1] \in {"token_shards.", "index."} => MergeRejectsBadBytes(k))
  /\ [][\A k \in DOMAIN indexes :
          k[1] \in {"token_shards.", "index."} => ValueReplacedByWholeMerge(k)]_vars

\* C26 witness: a stored value has above it an operand that deserializes and
\* one that does not, in this order, so that a partial union could be built.
C26_Witness ==
  \E k \in DOMAIN indexes :
    /\ k[1] \in {"token_shards.", "index."}
    /\ indexes[k].base.kind = "bytes"
    /\ Len(indexes[k].ops) = 2
    /\ ~deserialize(indexes[k].ops[1]).err
    /\ deserialize(indexes[k].ops[2]).err
    /\ FullMerge(k, indexes[k].base, <<indexes[k].ops[1]>>).value # indexes[k].base

(***************************************************************************)
(* A search over a store whose merge operands the engine still holds.       *)
(***************************************************************************)
\* the search of mailbox m1 for the token of the merge keys
MergedTokenRequest == SingleTokenRequest("m1", <<"title", "a">>)

\* on_search::on_request, once, at any moment of the behaviour
search_merged ==
  /\ spc = "idle"
  /\ sq' = MergedTokenRequest
  /\ sres' = search_response(indexes, documents, MergedTokenRequest)
  /\ spc' = "done"
  /\ UNCHANGED <<indexVars, metaVars, exactVars, handlerVars, concVars, sacc, sndocs>>

NextMergeSearch ==
  \/ \E k \in DOMAIN indexes : engine_merge(k)
  \/ \E k \in DOMAIN indexes : engine_full_merge(k)
  \/ \E k \in DOMAIN indexes : engine_partial_merge(k)
  \/ search_merged

SpecMergeSearch == InitMerge /\ [][NextMergeSearch]_vars

\* the bytes a read of the ShardSet of the searched token gets
SearchedShardSet == Get(indexes, shard_key("m1", <<"title", "a">>))

\* C27: a search that reads a ShardSet which does not deserialize, or whose
\* read fails, is answered with an error; a search whose ShardSet key is
\* missing is answered with an empty result.
C27_CorruptShardSetAborts ==
  [][(spc = "idle" /\ spc' = "done") =>
       /\ SearchedShardSet.kind = "corrupt" => sres'.kind = "error"
       /\ SearchedShardSet.kind = "none" => (sres'.kind = "ok" /\ sres'.ids = <<>>)]_vars

\* C27, the half the code keeps: a missing ShardSet key is an empty result
C27_MissingShardSetIsEmpty ==
  [][(spc = "idle" /\ spc' = "done" /\ SearchedShardSet.kind = "none") =>
       (sres'.kind = "ok" /\ sres'.ids = <<>>)]_vars

(***************************************************************************)
(* One index request followed entry by entry, its writes recorded.          *)
(***************************************************************************)
MaxBatchLen == 3
MaxBatchDocs == 3

\* the entries of "docs" that parse_docs accepts
BatchDocs ==
  {[id |-> id, indexed_id |-> assign_id(id, Hash(id), <<1, 1>>), mbox |-> "m1",
    ctx |-> c, idx |-> ix] : id \in ExtIds, c \in {"c1"}, ix \in DocIndexes}

\* on_index::on_request up to the call of parse_docs, the body valid
batch_on_request ==
  /\ bpc = "idle"
  /\ \E n \in 0..MaxBatchLen :
       /\ bleft' = n
       \* parse_docs over an empty array returns its initial ENOENT error
       /\ bpc' = IF n = 0 THEN "reply" ELSE "parse"
       /\ breply' = IF n = 0 THEN "error" ELSE "none"
  /\ breq' = <<>>
  /\ bwritten' = {}
  /\ UNCHANGED <<indexVars, metaVars, exactVars, queryVars, concVars, replyVars, compactVars>>

\* parse_docs: an entry that is no object, has no string id or no index object
batch_parse_invalid ==
  /\ bpc = "parse"
  /\ breq' = Append(breq, NoDoc)
  /\ bleft' = bleft - 1
  /\ bpc' = "reply"
  /\ breply' = "error"
  /\ UNCHANGED <<indexVars, metaVars, exactVars, queryVars, concVars, replyVars, compactVars, bwritten>>

\* parse_docs: one entry parsed, its id assigned, process_one_document entered
batch_parse ==
  /\ bpc = "parse"
  /\ nops < MaxBatchDocs
  /\ \E doc \in BatchDocs : breq' = Append(breq, doc)
  /\ bleft' = bleft - 1
  /\ nops' = nops + 1
  /\ bpc' = "write_docs"
  /\ UNCHANGED <<documents, document_ids, indexes, pc, cur, left, mbox, reply, trace,
                 assigned, clean, shadow, indexed>>
  /\ UNCHANGED <<metaVars, exactVars, queryVars, concVars, replyVars, compactVars, bwritten, breply>>

\* process_one_document: db_docs().write(&docs_batch)
batch_write_docs ==
  /\ bpc = "write_docs"
  /\ \E ok \in BOOLEAN :
       /\ bpc' = after_docs_write(ok)
       /\ IF ok
          THEN /\ documents' = PutKey(documents, docs_batch(breq[Len(breq)]).documents[1],
                                        docs_batch(breq[Len(breq)]).documents[2])
               /\ document_ids' = PutKey(document_ids, docs_batch(breq[Len(breq)]).document_ids[1],
                                           docs_batch(breq[Len(breq)]).document_ids[2])
               /\ bwritten' = bwritten \cup {<<Len(breq), "docs">>}
               /\ UNCHANGED breply
          ELSE /\ breply' = "error"
               /\ UNCHANGED <<documents, document_ids, bwritten>>
  /\ UNCHANGED <<indexes, pc, cur, left, mbox, reply, trace, nops, assigned, clean, shadow,
                 indexed>>
  /\ UNCHANGED <<metaVars, exactVars, queryVars, concVars, replyVars, compactVars, bleft, breq>>

\* a buggy loop of parse_docs: the error of process_one_document is dropped
\* and the next entry is taken
after_indexes_write_continue(ok, remaining) == IF remaining > 0 THEN "parse" ELSE "reply"

\* parse_docs: where it goes after process_one_document returned, with
\* `remaining` entries after this one: "if (err) return err;", else the next
\* entry, else the end of the loop
after_indexes_write(ok, remaining) == IF ok /\ remaining > 0 THEN "parse" ELSE "reply"

\* process_one_document: db_indexes().write(&indexes_batch), then back in
\* parse_docs: the next entry, or the end of the array
batch_write_indexes ==
  /\ bpc = "write_indexes"
  /\ \E ok \in BOOLEAN :
       IF ok
       THEN /\ indexes' = ApplyMerges(indexes, indexes_batch(breq[Len(breq)]))
            /\ bwritten' = bwritten \cup {<<Len(breq), "indexes">>}
            /\ bpc' = after_indexes_write(ok, bleft)
            /\ breply' = IF bleft = 0 THEN "ok" ELSE "none"
       ELSE /\ bpc' = after_indexes_write(ok, bleft)
            /\ breply' = "error"
            /\ UNCHANGED <<indexes, bwritten>>
  /\ UNCHANGED <<documents, document_ids, pc, cur, left, mbox, reply, trace, nops, assigned,
                 clean, shadow, indexed>>
  /\ UNCHANGED <<metaVars, exactVars, queryVars, concVars, replyVars, compactVars, bleft, breq>>

\* on_request: send_error or send_reply, the end of the request
batch_send_reply ==
  /\ bpc = "reply"
  /\ bpc' = "idle"
  /\ bleft' = 0
  /\ breq' = <<>>
  /\ bwritten' = {}
  /\ breply' = "none"
  /\ UNCHANGED <<indexVars, metaVars, exactVars, queryVars, concVars, replyVars, compactVars>>

NextBatch ==
  \/ batch_on_request
  \/ batch_parse_invalid
  \/ batch_parse
  \/ batch_write_docs
  \/ batch_write_indexes
  \/ batch_send_reply

SpecBatch == Init /\ [][NextBatch]_vars

\* entry n of the request was written to both stores by the request
WrittenToBoth(n) == {<<n, "docs">>, <<n, "indexes">>} \subseteq bwritten

\* the document of entry n is in both stores: its Document and its external
\* id in the docs store, its indexed_id in the posting list of each of its
\* tokens and the shard of that list in the token's ShardSet
Persisted(n) ==
  /\ to_string(breq[n].indexed_id) \in DOMAIN documents
  /\ documents[to_string(breq[n].indexed_id)] = doc_value(breq[n])
  /\ breq[n].id \in DOMAIN document_ids
  /\ document_ids[breq[n].id] = serialize(breq[n].indexed_id)
  /\ \A tp \in breq[n].idx :
       /\ breq[n].indexed_id \in
            PostingIds(index_key(breq[n].mbox, tp, generate_shard_number(breq[n].indexed_id)))
       /\ generate_shard_number(breq[n].indexed_id) \in
            Range(ReadList(indexes, shard_key(breq[n].mbox, tp)))

\* the request is about to reply after an entry that was invalid or whose
\* batch write failed
StoppedAtError ==
  /\ bpc = "reply"
  /\ breq # <<>>
  /\ ~WrittenToBoth(Len(breq))

IndexBodies == {"unparsable", "not_object", "no_mailbox", "no_docs", "docs_error", "docs_ok"}

\* the bodies a request to /search can carry, likewise
SearchBodies == {"unparsable", "not_object", "no_request", "query_not_object",
                 "query_parse_error", "query_ok"}

\* the requests the server routes: http_server::initialize
HttpRequests ==
  {[handler |-> "ping", body |-> "any"], [handler |-> "compact", body |-> "any"]}
    \cup {[handler |-> "index", body |-> b] : b \in IndexBodies}
    \cup {[handler |-> "search", body |-> b] : b \in SearchBodies}

\* on_ping::on_request: the send calls on its only path
on_ping_path == <<"send_reply">>

\* on_compact::on_request: the send calls on its only path
on_compact_path == <<"send_reply">>

\* on_index::on_request: the send calls made on the path a body takes
on_index_path(body) ==
  CASE body = "unparsable" -> <<"send_error">>
    [] body = "not_object" -> <<"send_error">>
    [] body = "no_mailbox" -> <<"send_error", "send_reply">>
    [] body = "no_docs" -> <<"send_error">>
    [] body = "docs_error" -> <<"send_error">>
    [] OTHER -> <<"send_reply">>

\* on_search::on_request: the send calls made on the path a body takes
on_search_path(body) ==
  CASE body = "unparsable" -> <<"send_error">>
    [] body = "not_object" -> <<"send_error">>
    [] body = "no_request" -> <<"send_error">>
    [] body = "query_not_object" -> <<"send_error">>
    [] body = "query_parse_error" -> <<"send_error">>
    [] OTHER -> <<"send_search_result">>

\* the path of a request through its handler
path(req) ==
  CASE req.handler = "ping" -> on_ping_path
    [] req.handler = "compact" -> on_compact_path
    [] req.handler = "index" -> on_index_path(req.body)
    [] OTHER -> on_search_path(req.body)

\* thevoid routes a request to its handler
receive(w) ==
  /\ hpc[w] \in {"idle", "returned"}
  /\ \E req \in HttpRequests : hreq' = [hreq EXCEPT ![w] = req]
  /\ hpc' = [hpc EXCEPT ![w] = "on_request"]
  /\ hplan' = [hplan EXCEPT ![w] = <<>>]
  /\ hsent' = [hsent EXCEPT ![w] = <<>>]
  /\ UNCHANGED <<indexVars, metaVars, exactVars, queryVars, concVars, batchVars, compactVars>>

\* on_request of the handler: the checks of the body up to the first send call
handle(w) ==
  /\ hpc[w] = "on_request"
  /\ hplan' = [hplan EXCEPT ![w] = path(hreq[w])]
  /\ hpc' = [hpc EXCEPT ![w] = "sending"]
  /\ UNCHANGED <<indexVars, metaVars, exactVars, queryVars, concVars, batchVars, compactVars, hreq, hsent>>

\* send_error, send_reply or send_search_result: one reply goes out
send(w) ==
  /\ hpc[w] = "sending"
  /\ hplan[w] # <<>>
  /\ hsent' = [hsent EXCEPT ![w] = Append(@, Head(hplan[w]))]
  /\ hplan' = [hplan EXCEPT ![w] = Tail(@)]
  /\ UNCHANGED <<indexVars, metaVars, exactVars, queryVars, concVars, batchVars, compactVars, hpc, hreq>>

\* on_request returns
return(w) ==
  /\ hpc[w] = "sending"
  /\ hplan[w] = <<>>
  /\ hpc' = [hpc EXCEPT ![w] = "returned"]
  /\ UNCHANGED <<indexVars, metaVars, exactVars, queryVars, concVars, batchVars, compactVars, hreq, hplan,
                 hsent>>

NextReply ==
  \/ \E w \in Workers : receive(w)
  \/ \E w \in Workers : handle(w)
  \/ \E w \in Workers : send(w)
  \/ \E w \in Workers : return(w)

SpecReply == Init /\ [][NextReply]_vars

\* C29: when on_request of the ping, compact, index or search handler has
\* returned, exactly one reply has been sent for the request, and no more
\* than one is sent at any moment before.
C29_ExactlyOneReply ==
  \A w \in Workers :
    /\ Len(hsent[w]) <= 1
    /\ hpc[w] = "returned" => Len(hsent[w]) = 1

\* C29 without the missing-mailbox path of the index handler
C29_OneReplyElsewhere ==
  \A w \in Workers :
    hreq[w] # [handler |-> "index", body |-> "no_mailbox"] =>
      /\ Len(hsent[w]) <= 1
      /\ hpc[w] = "returned" => Len(hsent[w]) = 1

(***************************************************************************)
(* The compact tool: the chunked compaction loop of main.                   *)
(***************************************************************************)
MaxColumnLen == 3
MaxSizeOption == 2
\* the loop is followed for at most one call of db.compact more than the
\* column has keys
MaxChunks == MaxColumnLen + 1

\* bytes in one MB of --size
MB == 1048576

\* the sizes of the values of the column
ValueSizes == {0, MB \div 2, MB}

\* the values of --size
SizeOptions == (0 - 1)..MaxSizeOption

\* long compact_size = csize_mb * 1024 * 1024
compact_size == csize * MB

\* it->Valid()
Valid == cit \in 1..Len(ccol)

\* what a read of a Slice taken from it->key() gives when db.compact runs:
\* the key it was taken from, or, since the storage of the Slice is only valid
\* until the iterator moves, the key the iterator is on by then
SliceRead(k) ==
  IF k = 0 THEN {0}
  ELSE {k} \cup (IF Valid THEN {cit} ELSE {})

\* main up to the loop: the options, the database opened, SeekToFirst
compact_main ==
  /\ cpc = "idle"
  /\ ccol' \in SeqsUpTo(ValueSizes, MaxColumnLen)
  /\ csize' \in SizeOptions
  /\ cit' = 1
  \* "iterator is not valid" on an empty column
  /\ cpc' = IF ccol' = <<>> THEN "done" ELSE "outer"
  /\ UNCHANGED <<indexVars, metaVars, exactVars, queryVars, concVars, batchVars, replyVars,
                 cstart, cend, current_size, cchunks, cstale>>

\* while (it->Valid()) { current_size = 0; Slice start, end; start = it->key();
compact_outer ==
  /\ cpc = "outer"
  /\ IF Valid
     THEN /\ current_size' = 0
          /\ cstart' = cit
          /\ cend' = 0
          /\ cpc' = "inner"
     ELSE /\ cpc' = "done"
          /\ UNCHANGED <<current_size, cstart, cend>>
  /\ UNCHANGED <<indexVars, metaVars, exactVars, queryVars, concVars, batchVars, replyVars,
                 ccol, csize, cit, cchunks, cstale>>

\* while (it->Valid() && current_size < compact_size) { ...; it->Next(); }
compact_inner ==
  /\ cpc = "inner"
  /\ IF Valid /\ current_size < compact_size
     THEN /\ current_size' = current_size + ccol[cit]
          /\ cend' = cit
          /\ cit' = cit + 1
          /\ UNCHANGED cpc
     ELSE /\ cpc' = "compact"
          /\ UNCHANGED <<current_size, cend, cit>>
  /\ UNCHANGED <<indexVars, metaVars, exactVars, queryVars, concVars, batchVars, replyVars,
                 ccol, csize, cstart, cchunks, cstale>>

\* db.compact(column_id, start, end)
compact_range ==
  /\ cpc = "compact"
  /\ Len(cchunks) < MaxChunks
  /\ \E s \in SliceRead(cstart), e \in SliceRead(cend) :
       /\ cchunks' = Append(cchunks, <<s, e>>)
       /\ cstale' = (cstale \/ s # cstart \/ e # cend)
  /\ cpc' = "outer"
  /\ UNCHANGED <<indexVars, metaVars, exactVars, queryVars, concVars, batchVars, replyVars,
                 ccol, csize, cit, cstart, cend, current_size>>

NextCompact ==
  \/ compact_main
  \/ compact_outer
  \/ compact_inner
  \/ compact_range

\* the tool runs on: each step of main is taken when it can be
SpecCompact == Init /\ [][NextCompact]_vars /\ WF_vars(NextCompact)

\* the keys of chunk n
ChunkKeys(n) == cchunks[n][1]..cchunks[n][2]

\* the chunks partition the column: each holds a key, they ascend without
\* overlap and every key is in exactly one
Partition ==
  /\ \A n \in DOMAIN cchunks : cchunks[n][1] >= 1 /\ cchunks[n][1] <= cchunks[n][2]
  /\ \A n \in 1..(Len(cchunks) - 1) : cchunks[n][2] < cchunks[n + 1][1]
  /\ \A k \in DOMAIN ccol : Cardinality({n \in DOMAIN cchunks : k \in ChunkKeys(n)}) = 1

\* C30: for every non-empty column and every --size the loop ends, and the
\* ranges it handed to db.compact partition the column: each holds a key,
\* they ascend without overlap, every key is in exactly one.
C30_CompactionPartitions ==
  /\ [](cpc = "outer" => <>(cpc = "done"))
  /\ []((cpc = "done" /\ ccol # <<>>) => Partition)

\* C30 for --size of at least 1 and Slices that read as they were assigned
C30_PositiveSizeFreshSlices ==
  /\ []((cpc = "outer" /\ csize >= 1) => <>(cpc = "done"))
  /\ []((cpc = "done" /\ ccol # <<>> /\ csize >= 1 /\ ~cstale) => Partition)

\* the loop makes no progress when --size is below 1: the inner loop is not
\* entered and the iterator stays where it is
C30_NoProgressBelowOne ==
  [][(cpc = "compact" /\ cpc' = "outer" /\ csize < 1) =>
       (cit' = cstart /\ cchunks'[Len(cchunks')] = <<cstart, 0>>)]_vars

====
